---- MODULE Spec2Model ----
(***************************************************************************)
(* Font book (catalog), best-variant matcher and codepoint coverage of     *)
(* crates/typst-library/src/text/font/{book.rs, variant.rs}.               *)
(*                                                                         *)
(* Strings are sequences of one-character strings, so that lowercasing,    *)
(* byte length and word segmentation are computed and not assumed.  Only   *)
(* ASCII text occurs, where a char is one byte.                            *)
(* Stretch values are permille integers.  All stretches of the model are   *)
(* multiples of 125 permille: their ratios are multiples of 1/8, on which  *)
(* the f64 arithmetic of Ratio is exact, so a Ratio distance is modelled   *)
(* by the permille difference.                                             *)
(***************************************************************************)
EXTENDS Integers, Sequences, FiniteSets, TLC

\* ------------------------------------------------------------------ bounds

\* Largest number of faces pushed into a book.
MaxFaces == 2
\* Codepoints of the coverage inputs are drawn from 0..MaxCp.
MaxCp == 4
\* Longest enumerated coverage input.
MaxLen == 3
\* How far above the largest input codepoint membership is queried
\* (tests::test_coverage queries 5 above).
Margin == 5
\* Number of threads that query one shared book.
MaxThreads == 2

VARIABLES
    families,   \* FontBook.families: lowercased family -> sequence of indices
    infos,      \* FontBook.infos: sequence of FontInfo (index i is infos[i+1])
    last,       \* the last catalog operation, its arguments and what it returned
    codepoints, \* the argument of Coverage::from_vec
    coverage,   \* the Coverage built from it (its run vector), once built
    cov,        \* the last coverage operation, its argument and what it returned
    threads,    \* per thread: the query it runs on the shared book, where it
                \* stands in it, and what it returned
    scratch     \* per call: the locals `best` and `best_key` of find_best_variant

vars == <<families, infos, last, codepoints, coverage, cov, threads, scratch>>

\* Option<T>
None == [some |-> FALSE]
Some(x) == [some |-> TRUE, val |-> x]

Range(s) == {s[i] : i \in 1..Len(s)}

SetMax(S) == CHOOSE x \in S : \A y \in S : y <= x

RECURSIVE SumSeq(_)
SumSeq(s) == IF s = <<>> THEN 0 ELSE Head(s) + SumSeq(Tail(s))

\* ---------------------------------------------------------------- Coverage

\* Vec::sort on u32 values: the ascending permutation of the input, built
\* by insertion.
RECURSIVE InsertSorted(_, _)
InsertSorted(x, s) ==
    IF s = <<>> THEN <<x>>
    ELSE IF x < Head(s) THEN <<x>> \o s
    ELSE <<Head(s)>> \o InsertSorted(x, Tail(s))

RECURSIVE sort(_)
sort(s) == IF s = <<>> THEN <<>> ELSE InsertSorted(Head(s), sort(Tail(s)))

\* Vec::dedup: drops every element equal to the one before it.
RECURSIVE dedup(_)
dedup(s) ==
    IF Len(s) <= 1 THEN s
    ELSE IF s[1] = s[2] THEN dedup(Tail(s))
    ELSE <<s[1]>> \o dedup(Tail(s))

\* One iteration of the loop of Coverage::from_vec on codepoint c, with
\* st = [runs, next].
from_vec_step_new_run(st, c) ==
    [runs |-> st.runs \o <<c - st.next, 1>>, next |-> c + 1]

from_vec_step(st, c) ==
    IF st.runs # <<>> /\ c = st.next
    THEN [runs |-> [st.runs EXCEPT ![Len(st.runs)] = @ + 1], next |-> c + 1]
    ELSE [runs |-> st.runs \o <<c - st.next, 1>>, next |-> c + 1]

RECURSIVE from_vec_loop(_, _)
from_vec_loop(st, cs) ==
    IF cs = <<>> THEN st
    ELSE from_vec_loop(from_vec_step(st, Head(cs)), Tail(cs))

\* Coverage::from_vec: sort, dedup, then the run-length sweep.
from_vec(cps) ==
    from_vec_loop([runs |-> <<>>, next |-> 0], dedup(sort(cps))).runs

\* Coverage::contains: walks the runs with (inside, cursor).
RECURSIVE contains_loop(_, _, _, _)
contains_loop(runs, c, inside, cursor) ==
    IF runs = <<>> THEN FALSE
    ELSE IF cursor <= c /\ c < cursor + Head(runs) THEN inside
    ELSE contains_loop(Tail(runs), c, ~inside, cursor + Head(runs))

contains_inclusive(runs, c) ==
    LET RECURSIVE walk(_, _, _)
        walk(rs, inside, cursor) ==
            IF rs = <<>> THEN FALSE
            ELSE IF cursor <= c /\ c <= cursor + Head(rs) THEN inside
            ELSE walk(Tail(rs), ~inside, cursor + Head(rs))
    IN  walk(runs, FALSE, 0)

contains(runs, c) == contains_loop(runs, c, FALSE, 0)

\* Coverage::iter: the flat_map over the runs, yielding cursor..cursor+run
\* for the inside runs.
RECURSIVE iter_loop(_, _, _)
iter_loop(runs, inside, cursor) ==
    IF runs = <<>> THEN <<>>
    ELSE (IF inside
          THEN [i \in 1..Head(runs) |-> cursor + i - 1]
          ELSE <<>>)
         \o iter_loop(Tail(runs), ~inside, cursor + Head(runs))

iter_outside_first(runs) == iter_loop(runs, TRUE, 0)

iter(runs) == iter_loop(runs, FALSE, 0)

\* ----------------------------------------------------------------- strings

UpperChars ==
    <<"A", "B", "C", "D", "E", "F", "G", "H", "I", "J", "K", "L", "M",
      "N", "O", "P", "Q", "R", "S", "T", "U", "V", "W", "X", "Y", "Z">>

LowerChars ==
    <<"a", "b", "c", "d", "e", "f", "g", "h", "i", "j", "k", "l", "m",
      "n", "o", "p", "q", "r", "s", "t", "u", "v", "w", "x", "y", "z">>

Digits == {"0", "1", "2", "3", "4", "5", "6", "7", "8", "9"}

\* char::to_lowercase on ASCII: the table from uppercase to lowercase letters.
LowerOfUpper ==
    [c \in Range(UpperChars) |-> LowerChars[CHOOSE i \in 1..26 : UpperChars[i] = c]]

lower_char(c) == IF c \in DOMAIN LowerOfUpper THEN LowerOfUpper[c] ELSE c

\* str::to_lowercase, on ASCII text.
to_lowercase(s) == [i \in 1..Len(s) |-> lower_char(s[i])]

\* A char that belongs to a word of the Unicode word segmentation: on the
\* ASCII text of the model, a letter or a digit.
WordChars == Range(UpperChars) \cup Range(LowerChars) \cup Digits

is_word_char(c) == c \in WordChars

\* UnicodeSegmentation::unicode_words: the maximal runs of word chars, in
\* order.  cur is the word being read.
RECURSIVE words_loop(_, _)
words_loop(s, cur) ==
    IF s = <<>> THEN (IF cur = <<>> THEN <<>> ELSE <<cur>>)
    ELSE IF is_word_char(Head(s)) THEN words_loop(Tail(s), Append(cur, Head(s)))
    ELSE (IF cur = <<>> THEN <<>> ELSE <<cur>>) \o words_loop(Tail(s), <<>>)

unicode_words(s) == words_loop(s, <<>>)

\* zip(..).take_while(|(l, r)| l == r).count()
RECURSIVE take_while_eq_count(_, _)
take_while_eq_count(l, r) ==
    IF l = <<>> \/ r = <<>> THEN 0
    ELSE IF Head(l) = Head(r) THEN 1 + take_while_eq_count(Tail(l), Tail(r))
    ELSE 0

shared_prefix_words(left, right) ==
    take_while_eq_count(unicode_words(left), unicode_words(right))

\* ----------------------------------------------------------- variant model

Normal == "Normal"
Italic == "Italic"
Oblique == "Oblique"
FontStyles == {Normal, Italic, Oblique}

\* Field<T>
Static(v) == [tag |-> "Static", value |-> v]
Variable(lo, hi, d) == [tag |-> "Variable", start |-> lo, end |-> hi, default |-> d]

\* SlantAxis
SlantNone == [tag |-> "None"]
Slnt(mn, mx, d) == [tag |-> "Slnt", min |-> mn, max |-> mx, default |-> d]
Ital(d) == [tag |-> "Ital", default_italic |-> d]

\* OpticalSizeAxis
OpszNone == [tag |-> "None"]
Opsz(mn, mx, d) == [tag |-> "Opsz", min |-> mn, max |-> mx, default |-> d]

FontVariant(s, w, st) == [style |-> s, weight |-> w, stretch |-> st]

Abs(x) == IF x < 0 THEN -x ELSE x

\* FontStyle::distance
style_distance(a, b) ==
    IF a = b THEN 0
    ELSE IF a # Normal /\ b # Normal THEN 1
    ELSE 2

\* `x as i16` of a u16
as_i16(x) == IF x >= 32768 THEN x - 65536 ELSE x

\* The i16 subtraction x - y leaves the range of i16 (a panic in a debug
\* build, a wrapped value in a release build).
i16_sub_overflows(x, y) == (x - y < -32768) \/ (x - y > 32767)

weight_distance_saturating(a, b) == IF a >= b THEN a - b ELSE 0

\* FontWeight::distance
weight_distance(a, b) == Abs(as_i16(a) - as_i16(b))

\* FontStretch::distance, in permille (see the module comment)
stretch_distance(a, b) == Abs(a - b)

\* RangeInclusive::contains
range_contains(f, v) == f.start <= v /\ v <= f.end

weight_field_distance_swapped(f, v) ==
    IF f.tag = "Static" THEN weight_distance(f.value, v)
    ELSE IF range_contains(f, v) THEN 0
    ELSE IF v < f.start THEN weight_distance(f.end, v)
    ELSE weight_distance(f.start, v)

\* The weight arm of FontVariantCoverage::distance.
weight_field_distance(f, v) ==
    IF f.tag = "Static" THEN weight_distance(f.value, v)
    ELSE IF range_contains(f, v) THEN 0
    ELSE IF v < f.start THEN weight_distance(f.start, v)
    ELSE weight_distance(f.end, v)

\* The stretch arm of FontVariantCoverage::distance.
stretch_field_distance(f, v) ==
    IF f.tag = "Static" THEN stretch_distance(f.value, v)
    ELSE IF range_contains(f, v) THEN 0
    ELSE IF v < f.start THEN stretch_distance(f.start, v)
    ELSE stretch_distance(f.end, v)

coverage_style_distance_both_negative(c, vstyle) ==
    IF c.slant_axis.tag = "Slnt" THEN
        LET can_produce_slant == c.slant_axis.min < 0 /\ c.slant_axis.max < 0
        IN  IF c.style = vstyle THEN 0
            ELSE IF c.style = Normal /\ vstyle \in {Italic, Oblique} /\ can_produce_slant
            THEN 0
            ELSE style_distance(c.style, vstyle)
    ELSE IF c.slant_axis.tag = "Ital" THEN
        IF c.style = vstyle THEN 0
        ELSE IF c.style = Normal /\ vstyle \in {Italic, Oblique} THEN 0
        ELSE IF c.style = Italic /\ vstyle = Normal THEN 0
        ELSE style_distance(c.style, vstyle)
    ELSE style_distance(c.style, vstyle)

coverage_style_distance_ital_to_italic_only(c, vstyle) ==
    IF c.slant_axis.tag = "Slnt" THEN
        LET can_produce_slant == c.slant_axis.min < 0 \/ c.slant_axis.max < 0
        IN  IF c.style = vstyle THEN 0
            ELSE IF c.style = Normal /\ vstyle \in {Italic, Oblique} /\ can_produce_slant
            THEN 0
            ELSE style_distance(c.style, vstyle)
    ELSE IF c.slant_axis.tag = "Ital" THEN
        IF c.style = vstyle THEN 0
        ELSE IF c.style = Normal /\ vstyle = Italic THEN 0
        ELSE IF c.style = Italic /\ vstyle = Normal THEN 0
        ELSE style_distance(c.style, vstyle)
    ELSE style_distance(c.style, vstyle)

\* The style arm of FontVariantCoverage::distance.
coverage_style_distance(c, vstyle) ==
    IF c.slant_axis.tag = "Slnt" THEN
        LET can_produce_slant == c.slant_axis.min < 0 \/ c.slant_axis.max < 0
        IN  IF c.style = vstyle THEN 0
            ELSE IF c.style = Normal /\ vstyle \in {Italic, Oblique} /\ can_produce_slant
            THEN 0
            ELSE style_distance(c.style, vstyle)
    ELSE IF c.slant_axis.tag = "Ital" THEN
        IF c.style = vstyle THEN 0
        ELSE IF c.style = Normal /\ vstyle \in {Italic, Oblique} THEN 0
        ELSE IF c.style = Italic /\ vstyle = Normal THEN 0
        ELSE style_distance(c.style, vstyle)
    ELSE style_distance(c.style, vstyle)

\* FontVariantCoverage::distance: (style_dist, stretch_dist, weight_dist)
distance(c, variant) ==
    [style |-> coverage_style_distance(c, variant.style),
     stretch |-> stretch_field_distance(c.stretch, variant.stretch),
     weight |-> weight_field_distance(c.weight, variant.weight)]

supports_either(c, variant) ==
    /\ c.style = variant.style
    /\ \/ IF c.weight.tag = "Static" THEN c.weight.value = variant.weight
          ELSE range_contains(c.weight, variant.weight)
       \/ IF c.stretch.tag = "Static" THEN c.stretch.value = variant.stretch
          ELSE range_contains(c.stretch, variant.stretch)

\* FontVariantCoverage::supports
supports(c, variant) ==
    /\ c.style = variant.style
    /\ IF c.weight.tag = "Static" THEN c.weight.value = variant.weight
       ELSE range_contains(c.weight, variant.weight)
    /\ IF c.stretch.tag = "Static" THEN c.stretch.value = variant.stretch
       ELSE range_contains(c.stretch, variant.stretch)

\* FontVariantCoverage::is_variable
is_variable(c) ==
    \/ c.weight.tag = "Variable"
    \/ c.stretch.tag = "Variable"
    \/ c.slant_axis.tag # "None"
    \/ c.optical_size_axis.tag # "None"

clamp_to_range_unclamped(value, f) == value

\* clamp_to_range
clamp_to_range(value, f) ==
    IF value < f.start THEN f.start
    ELSE IF value > f.end THEN f.end
    ELSE value

\* ------------------------------------------------------------------- book

MONOSPACE == "MONOSPACE"
SERIF == "SERIF"

FontInfo(fam, vc, fl, cps) ==
    [family |-> fam, variant_coverage |-> vc, flags |-> fl, coverage |-> from_vec(cps)]

FontVariantCoverage(s, w, st, sl, op) ==
    [style |-> s, weight |-> w, stretch |-> st, slant_axis |-> sl,
     optical_size_axis |-> op]

\* FontBook::new
NewFamilies == [k \in {} |-> <<>>]
NewInfos == <<>>

\* The FontBook value of the current state.
Book == [families |-> families, infos |-> infos]

\* self.infos[id], with the 0-based index of the code
info_at(book, id) == book.infos[id + 1]

\* InstanceParameters::new and its setters: every parameter is optional.
NewInstanceParameters ==
    [weight |-> None, stretch |-> None, slant |-> None, italic |-> None,
     optical_size |-> None]

\* --- the ordering of the keys of find_best_variant

CmpInt(a, b) == IF a < b THEN -1 ELSE IF a > b THEN 1 ELSE 0

\* bool: false < true
CmpBool(a, b) == CmpInt(IF a THEN 1 ELSE 0, IF b THEN 1 ELSE 0)

\* std::cmp::Reverse
CmpReverse(a, b) == CmpInt(b, a)

\* The lexicographic order of tuples: the first component that differs.
RECURSIVE LexCmp(_)
LexCmp(cs) ==
    IF cs = <<>> THEN 0
    ELSE IF Head(cs) # 0 THEN Head(cs)
    ELSE LexCmp(Tail(cs))

CmpLike_fewer_shared_first(a, b) ==
    LexCmp(<<CmpBool(a.monospace, b.monospace), CmpBool(a.serif, b.serif),
             CmpInt(a.shared, b.shared), CmpInt(a.len, b.len)>>)

\* (bool, bool, Reverse<usize>, usize)
CmpLike(a, b) ==
    LexCmp(<<CmpBool(a.monospace, b.monospace), CmpBool(a.serif, b.serif),
             CmpReverse(a.shared, b.shared), CmpInt(a.len, b.len)>>)

\* Option<T>: None < Some(_)
CmpOption(a, b) ==
    IF ~a.some /\ ~b.some THEN 0
    ELSE IF ~a.some THEN -1
    ELSE IF ~b.some THEN 1
    ELSE CmpLike(a.val, b.val)

\* (Option<..>, u16, Ratio, u16)
CmpKey(a, b) ==
    LexCmp(<<CmpOption(a.like, b.like), CmpInt(a.style, b.style),
             CmpInt(a.stretch, b.stretch), CmpInt(a.weight, b.weight)>>)

\* The key of candidate `current` in find_best_variant.
variant_key(current, like, variant) ==
    LET d == distance(current.variant_coverage, variant)
    IN  [like |->
            IF like.some
            THEN Some([monospace |->
                           (MONOSPACE \in current.flags) # (MONOSPACE \in like.val.flags),
                       serif |-> (SERIF \in current.flags) # (SERIF \in like.val.flags),
                       shared |-> shared_prefix_words(current.family, like.val.family),
                       len |-> Len(current.family)])
            ELSE None,
         style |-> d.style, stretch |-> d.stretch, weight |-> d.weight]

\* best_key.is_none_or(|b| key < b)
replaces_best_le(best_key, key) ==
    ~best_key.some \/ CmpKey(key, best_key.val) <= 0

replaces_best_greater(best_key, key) ==
    ~best_key.some \/ CmpKey(key, best_key.val) > 0

replaces_best(best_key, key) ==
    ~best_key.some \/ CmpKey(key, best_key.val) < 0

\* The loop of find_best_variant over ids, with st = [best, best_key].
RECURSIVE best_loop(_, _, _, _, _)
best_loop(book, like, variant, ids, st) ==
    IF ids = <<>> THEN st
    ELSE LET id == Head(ids)
             key == variant_key(info_at(book, id), like, variant)
         IN  best_loop(book, like, variant, Tail(ids),
                       IF replaces_best(st.best_key, key)
                       THEN [best |-> Some(id), best_key |-> Some(key)]
                       ELSE st)

\* f32::clamp asserts min <= max
f32_clamp_panics(mn, mx) == ~(mn <= mx)

f32_clamp(x, mn, mx) == IF x < mn THEN mn ELSE IF x > mx THEN mx ELSE x

instance_params_weight_always(info, variant, optical_size) ==
    LET c == info.variant_coverage
    IN  [weight |->
            IF c.weight.tag = "Variable"
            THEN Some(clamp_to_range(variant.weight, c.weight))
            ELSE Some(variant.weight),
         stretch |->
            IF c.stretch.tag = "Variable"
            THEN Some(clamp_to_range(variant.stretch, c.stretch))
            ELSE None,
         slant |->
            IF c.slant_axis.tag = "Slnt"
            THEN Some(IF variant.style = Normal
                      THEN c.slant_axis.default
                      ELSE IF c.slant_axis.min <= c.slant_axis.max
                           THEN c.slant_axis.min
                           ELSE c.slant_axis.max)
            ELSE None,
         italic |->
            IF c.slant_axis.tag = "Ital"
            THEN Some(variant.style \in {Italic, Oblique})
            ELSE None,
         optical_size |->
            IF c.optical_size_axis.tag = "Opsz"
            THEN Some(f32_clamp(IF optical_size.some
                                THEN optical_size.val
                                ELSE c.optical_size_axis.default,
                                c.optical_size_axis.min,
                                c.optical_size_axis.max))
            ELSE None]

instance_params_max_slant(info, variant, optical_size) ==
    LET c == info.variant_coverage
    IN  IF ~is_variable(c) THEN NewInstanceParameters
        ELSE [weight |->
                 IF c.weight.tag = "Variable"
                 THEN Some(clamp_to_range(variant.weight, c.weight))
                 ELSE None,
              stretch |->
                 IF c.stretch.tag = "Variable"
                 THEN Some(clamp_to_range(variant.stretch, c.stretch))
                 ELSE None,
              slant |->
                 IF c.slant_axis.tag = "Slnt"
                 THEN Some(IF variant.style = Normal
                           THEN c.slant_axis.default
                           ELSE IF c.slant_axis.min <= c.slant_axis.max
                                THEN c.slant_axis.max
                                ELSE c.slant_axis.min)
                 ELSE None,
              italic |->
                 IF c.slant_axis.tag = "Ital"
                 THEN Some(variant.style \in {Italic, Oblique})
                 ELSE None,
              optical_size |->
                 IF c.optical_size_axis.tag = "Opsz"
                 THEN Some(f32_clamp(IF optical_size.some
                                     THEN optical_size.val
                                     ELSE c.optical_size_axis.default,
                                     c.optical_size_axis.min,
                                     c.optical_size_axis.max))
                 ELSE None]

instance_params_italic_only(info, variant, optical_size) ==
    LET c == info.variant_coverage
    IN  IF ~is_variable(c) THEN NewInstanceParameters
        ELSE [weight |->
                 IF c.weight.tag = "Variable"
                 THEN Some(clamp_to_range(variant.weight, c.weight))
                 ELSE None,
              stretch |->
                 IF c.stretch.tag = "Variable"
                 THEN Some(clamp_to_range(variant.stretch, c.stretch))
                 ELSE None,
              slant |->
                 IF c.slant_axis.tag = "Slnt"
                 THEN Some(IF variant.style = Normal
                           THEN c.slant_axis.default
                           ELSE IF c.slant_axis.min <= c.slant_axis.max
                                THEN c.slant_axis.min
                                ELSE c.slant_axis.max)
                 ELSE None,
              italic |->
                 IF c.slant_axis.tag = "Ital"
                 THEN Some(variant.style = Italic)
                 ELSE None,
              optical_size |->
                 IF c.optical_size_axis.tag = "Opsz"
                 THEN Some(f32_clamp(IF optical_size.some
                                     THEN optical_size.val
                                     ELSE c.optical_size_axis.default,
                                     c.optical_size_axis.min,
                                     c.optical_size_axis.max))
                 ELSE None]

\* The instance parameters find_best_variant builds for the winner `info`.
instance_params(info, variant, optical_size) ==
    LET c == info.variant_coverage
    IN  IF ~is_variable(c) THEN NewInstanceParameters
        ELSE [weight |->
                 IF c.weight.tag = "Variable"
                 THEN Some(clamp_to_range(variant.weight, c.weight))
                 ELSE None,
              stretch |->
                 IF c.stretch.tag = "Variable"
                 THEN Some(clamp_to_range(variant.stretch, c.stretch))
                 ELSE None,
              slant |->
                 IF c.slant_axis.tag = "Slnt"
                 THEN Some(IF variant.style = Normal
                           THEN c.slant_axis.default
                           ELSE IF c.slant_axis.min <= c.slant_axis.max
                                THEN c.slant_axis.min
                                ELSE c.slant_axis.max)
                 ELSE None,
              italic |->
                 IF c.slant_axis.tag = "Ital"
                 THEN Some(variant.style \in {Italic, Oblique})
                 ELSE None,
              optical_size |->
                 IF c.optical_size_axis.tag = "Opsz"
                 THEN Some(f32_clamp(IF optical_size.some
                                     THEN optical_size.val
                                     ELSE c.optical_size_axis.default,
                                     c.optical_size_axis.min,
                                     c.optical_size_axis.max))
                 ELSE None]

\* The outcome of a call that panicked.
Panic == [some |-> FALSE, panic |-> TRUE]

\* best.map(|id| ..): the FontKey built for the best candidate, if any.
best_map(book, best, variant, optical_size) ==
    IF ~best.some THEN None
    ELSE LET info == info_at(book, best.val)
             op == info.variant_coverage.optical_size_axis
         IN  IF op.tag = "Opsz" /\ f32_clamp_panics(op.min, op.max)
             THEN Panic
             ELSE Some([index |-> best.val,
                        instance_params |->
                            instance_params(info, variant, optical_size)])

\* FontBook::find_best_variant
find_best_variant(book, like, variant, optical_size, ids) ==
    LET st == best_loop(book, like, variant, ids, [best |-> None, best_key |-> None])
    IN  best_map(book, st.best, variant, optical_size)

select_lowercased(book, family, variant, optical_size) ==
    IF to_lowercase(family) \notin DOMAIN book.families THEN None
    ELSE find_best_variant(book, None, variant, optical_size,
                           book.families[to_lowercase(family)])

\* FontBook::select
select(book, family, variant, optical_size) ==
    IF family \notin DOMAIN book.families THEN None
    ELSE find_best_variant(book, None, variant, optical_size, book.families[family])

\* FontBook::select_family
select_family(book, family) ==
    IF family \in DOMAIN book.families THEN book.families[family] ELSE <<>>

\* FontBook::contains_family
contains_family(book, family) == family \in DOMAIN book.families

\* char::is_whitespace: the White_Space code points
WhiteSpace ==
    (9..13) \cup {32, 133, 160, 5760, 8232, 8233, 8239, 8287, 12288}
    \cup (8192..8202)

is_whitespace(c) == c \in WhiteSpace

\* crate::text::is_default_ignorable: soft hyphen, zero-width space and
\* joiners, variation selectors, byte order mark
DefaultIgnorable == {173, 8203, 8204, 8205, 65279} \cup (65024..65039)

is_default_ignorable(c) == c \in DefaultIgnorable

\* text.chars().find(|&c| !c.is_whitespace() && !is_default_ignorable(c))
RECURSIVE first_shapable_char(_)
first_shapable_char(text) ==
    IF text = <<>> THEN None
    ELSE IF ~is_whitespace(Head(text)) /\ ~is_default_ignorable(Head(text))
    THEN Some(Head(text))
    ELSE first_shapable_char(Tail(text))

all_ids(book, c, from) == [i \in 1..(Len(book.infos) - from) |-> from + i - 1]

\* self.infos.iter().enumerate().filter(coverage.contains(c)).map(index)
RECURSIVE covering_ids(_, _, _)
covering_ids(book, c, from) ==
    IF from >= Len(book.infos) THEN <<>>
    ELSE (IF contains(info_at(book, from).coverage, c) THEN <<from>> ELSE <<>>)
         \o covering_ids(book, c, from + 1)

\* FontBook::select_fallback
select_fallback(book, like, variant, text, optical_size) ==
    LET c == first_shapable_char(text)
    IN  IF ~c.some THEN None
        ELSE find_best_variant(book, like, variant, optical_size,
                               covering_ids(book, c.val, 0))

push_families_raw(book, info) ==
    LET index == Len(book.infos)
    IN  IF info.family \in DOMAIN book.families
        THEN [book.families EXCEPT ![info.family] = Append(@, index)]
        ELSE book.families @@ (info.family :> <<index>>)

\* FontBook::push: the families map after the push
push_families(book, info) ==
    LET index == Len(book.infos)
        family == to_lowercase(info.family)
    IN  IF family \in DOMAIN book.families
        THEN [book.families EXCEPT ![family] = Append(@, index)]
        ELSE book.families @@ (family :> <<index>>)

push_infos_dedup(book, info) ==
    IF info \in Range(book.infos) THEN book.infos ELSE Append(book.infos, info)

\* FontBook::push: the infos vector after the push
push_infos(book, info) == Append(book.infos, info)

\* FontBook::from_infos: pushes the faces in order into a new book.
RECURSIVE from_infos(_)
from_infos(fs) ==
    IF fs = <<>> THEN [families |-> NewFamilies, infos |-> NewInfos]
    ELSE LET book == from_infos(SubSeq(fs, 1, Len(fs) - 1))
             info == fs[Len(fs)]
         IN  [families |-> push_families(book, info),
              infos |-> push_infos(book, info)]

\* The UTF-8 byte of a char of the model's family strings: a space or an
\* ASCII letter.
ByteOf ==
    [c \in {" "} \cup Range(UpperChars) \cup Range(LowerChars) |->
        IF c = " " THEN 32
        ELSE IF c \in Range(UpperChars)
        THEN 64 + (CHOOSE i \in 1..26 : UpperChars[i] = c)
        ELSE 96 + (CHOOSE i \in 1..26 : LowerChars[i] = c)]

\* Ord for String: bytewise lexicographic, a proper prefix first.
RECURSIVE str_less(_, _)
str_less(a, b) ==
    IF b = <<>> THEN FALSE
    ELSE IF a = <<>> THEN TRUE
    ELSE IF ByteOf[Head(a)] # ByteOf[Head(b)] THEN ByteOf[Head(a)] < ByteOf[Head(b)]
    ELSE str_less(Tail(a), Tail(b))

\* The keys of a BTreeMap<String, _> in iteration order: ascending.
RECURSIVE btree_keys(_)
btree_keys(keys) ==
    IF keys = {} THEN <<>>
    ELSE LET least == CHOOSE k \in keys : \A j \in keys \ {k} : str_less(k, j)
         IN  <<least>> \o btree_keys(keys \ {least})

families_key_as_name(book) ==
    LET keys == btree_keys(DOMAIN book.families)
    IN  [i \in 1..Len(keys) |-> [family |-> keys[i], ids |-> book.families[keys[i]]]]

\* FontBook::families: for the values of the map in key order, the family
\* of the first face of the list and the list.
families_iter(book) ==
    LET keys == btree_keys(DOMAIN book.families)
    IN  [i \in 1..Len(keys) |->
            LET ids == book.families[keys[i]]
            IN  [family |-> info_at(book, ids[1]).family, ids |-> ids]]

\* FontBook::info (`info` names the pushed face in the actions)
book_info(book, index) ==
    IF index < Len(book.infos) THEN Some(info_at(book, index)) ELSE None

\* ------------------------------------------------------ typographic_family

\* const SEPARATORS
SEPARATORS == {" ", "-", "_"}

\* const MODIFIERS, in the order of the slice
MODIFIERS ==
    <<
      <<"e", "x", "t", "r", "a">>, <<"e", "x", "t">>, <<"e", "x">>, <<"x">>,
      <<"s", "e", "m", "i">>, <<"s", "e", "m">>, <<"s", "m">>,
      <<"d", "e", "m", "i">>, <<"d", "e", "m">>, <<"u", "l", "t", "r", "a">> >>

\* const SUFFIXES, in the order of the slice
SUFFIXES ==
    <<
      <<"n", "o", "r", "m", "a", "l">>, <<"i", "t", "a", "l", "i", "c">>,
      <<"o", "b", "l", "i", "q", "u", "e">>,
      <<"s", "l", "a", "n", "t", "e", "d">>, <<"t", "h", "i", "n">>,
      <<"t", "h">>, <<"h", "a", "i", "r", "l", "i", "n", "e">>,
      <<"l", "i", "g", "h", "t">>, <<"l", "t">>,
      <<"r", "e", "g", "u", "l", "a", "r">>,
      <<"m", "e", "d", "i", "u", "m">>, <<"m", "e", "d">>, <<"m", "d">>,
      <<"b", "o", "l", "d">>, <<"b", "d">>, <<"d", "e", "m", "i">>,
      <<"e", "x", "t", "b">>, <<"b", "l", "a", "c", "k">>, <<"b", "l", "k">>,
      <<"b", "k">>, <<"h", "e", "a", "v", "y">>,
      <<"n", "a", "r", "r", "o", "w">>,
      <<"c", "o", "n", "d", "e", "n", "s", "e", "d">>,
      <<"c", "o", "n", "d">>, <<"c", "n">>, <<"c", "d">>,
      <<"c", "o", "m", "p", "r", "e", "s", "s", "e", "d">>,
      <<"e", "x", "p", "a", "n", "d", "e", "d">>, <<"e", "x", "p">> >>

\* str::trim and trim_start_matches('.'): the whitespace of the model's names
\* is the space.
RECURSIVE trim_start(_, _)
trim_start(s, chars) ==
    IF s # <<>> /\ Head(s) \in chars THEN trim_start(Tail(s), chars) ELSE s

RECURSIVE trim_end(_, _)
trim_end(s, chars) ==
    IF s # <<>> /\ s[Len(s)] \in chars
    THEN trim_end(SubSeq(s, 1, Len(s) - 1), chars)
    ELSE s

trim(s) == trim_end(trim_start(s, {" "}), {" "})

\* str::to_ascii_lowercase
to_ascii_lowercase(s) == [i \in 1..Len(s) |-> lower_char(s[i])]

\* str::strip_suffix(&str)
strip_suffix(t, suffix) ==
    IF Len(suffix) <= Len(t) /\ SubSeq(t, Len(t) - Len(suffix) + 1, Len(t)) = suffix
    THEN Some(SubSeq(t, 1, Len(t) - Len(suffix)))
    ELSE None

\* str::strip_suffix(SEPARATORS)
strip_separator(t) ==
    IF t # <<>> /\ t[Len(t)] \in SEPARATORS
    THEN Some(SubSeq(t, 1, Len(t) - 1))
    ELSE None

\* list.iter().find_map(|s| t.strip_suffix(s)), from the i-th entry on
RECURSIVE find_map_strip(_, _, _)
find_map_strip(list, t, i) ==
    IF i > Len(list) THEN None
    ELSE IF strip_suffix(t, list[i]).some THEN strip_suffix(t, list[i])
    ELSE find_map_strip(list, t, i + 1)

\* while let Some(s) = SUFFIXES.iter().find_map(..) { shortened = true; t = s; }
RECURSIVE strip_suffixes(_, _)
strip_suffixes(t, shortened) ==
    LET s == find_map_strip(SUFFIXES, t, 1)
    IN  IF s.some THEN strip_suffixes(s.val, TRUE)
        ELSE [t |-> t, shortened |-> shortened]

strip_modifier_unseparated(t, trimmed) ==
    LET m == find_map_strip(MODIFIERS, t, 1)
    IN  IF m.some THEN m.val ELSE trimmed

\* if let Some(t) = MODIFIERS.iter().find_map(..)
\*     && let Some(stripped) = t.strip_suffix(SEPARATORS) { trimmed = stripped; }
strip_modifier(t, trimmed) ==
    LET m == find_map_strip(MODIFIERS, t, 1)
    IN  IF m.some /\ strip_separator(m.val).some
        THEN strip_separator(m.val).val
        ELSE trimmed

\* while trimmed.len() < len { .. }: the final value of len.  len is None
\* for its initial value usize::MAX, which is above every length.
RECURSIVE trim_loop(_, _)
trim_loop(trimmed, len) ==
    IF len.some /\ ~(Len(trimmed) < len.val) THEN len.val
    ELSE LET s == strip_suffixes(trimmed, FALSE)
             sep == strip_separator(s.t)
             t == IF sep.some THEN sep.val ELSE s.t
             trimmed1 == IF sep.some THEN sep.val ELSE trimmed
         IN  IF ~s.shortened THEN Len(trimmed)
             ELSE trim_loop(strip_modifier(t, trimmed1), Some(Len(trimmed)))

\* typographic_family
typographic_family(name) ==
    LET family == trim_start(trim(name), {"."})
        lower == to_ascii_lowercase(family)
    IN  SubSeq(family, 1, trim_loop(lower, None))

\* ------------------------------------------------- the faces and the queries

\* Family strings.
NotoSans == <<"N", "o", "t", "o", " ", "S", "a", "n", "s">>
NotoSansLower == <<"n", "o", "t", "o", " ", "s", "a", "n", "s">>
NotoSansCJK == <<"N", "o", "t", "o", " ", "S", "a", "n", "s", " ", "C", "J", "K", " ", "H", "K">>
NotoSansArabic == <<"N", "o", "t", "o", " ", "S", "a", "n", "s", " ", "A", "r", "a", "b", "i", "c">>
NotoSerif == <<"N", "o", "t", "o", " ", "S", "e", "r", "i", "f">>
IBMPlex == <<"I", "B", "M", " ", "P", "l", "e", "x">>
IBMPlexLower == <<"i", "b", "m", " ", "p", "l", "e", "x">>

\* Code points: 'a', 'b', U+4E2D; a space and a soft hyphen.
Ch == [a |-> 97, b |-> 98, zhong |-> 20013, space |-> 32, shy |-> 173]

\* Named weights and stretches of variant.rs.
LIGHT == 300
REGULAR == 400
MEDIUM == 500
SEMIBOLD == 600
BOLD == 700
CONDENSED == 750
NORMAL == 1000

StaticCoverage(s, w, st) ==
    FontVariantCoverage(s, Static(w), Static(st), SlantNone, OpszNone)

\* The faces a book is built from: static faces of one family that differ in
\* style, weight and stretch, variable faces (wght, wdth, slnt, ital, opsz
\* axes as FontInfo::from_ttf stores them), and faces of other families that
\* differ in flags, family words and coverage.
Faces ==
    { FontInfo(NotoSans, StaticCoverage(s, w, NORMAL), {}, <<Ch.b, Ch.a>>) :
        s \in {Normal, Italic}, w \in {MEDIUM, BOLD} }
    \cup
    { FontInfo(NotoSans, StaticCoverage(Normal, REGULAR, NORMAL), {},
               <<Ch.zhong, Ch.a, Ch.a>>),
      FontInfo(NotoSansLower, StaticCoverage(Oblique, REGULAR, CONDENSED), {},
               <<Ch.a, Ch.zhong>>),
      FontInfo(NotoSans,
               FontVariantCoverage(Normal, Variable(200, 700, REGULAR),
                                   Static(NORMAL), SlantNone, OpszNone),
               {}, <<Ch.a>>),
      FontInfo(NotoSans,
               FontVariantCoverage(Normal, Static(REGULAR),
                                   Variable(CONDENSED, NORMAL, NORMAL),
                                   Slnt(-12, 0, 0), Opsz(8, 144, 14)),
               {}, <<Ch.a, Ch.zhong>>),
      FontInfo(NotoSans,
               FontVariantCoverage(Normal, Static(LIGHT), Static(NORMAL),
                                   Ital(FALSE), OpszNone),
               {}, <<Ch.a>>),
      FontInfo(NotoSansCJK, StaticCoverage(Normal, REGULAR, NORMAL), {},
               <<Ch.zhong>>),
      FontInfo(NotoSansCJK, StaticCoverage(Italic, REGULAR, CONDENSED), {},
               <<Ch.zhong>>),
      FontInfo(NotoSerif, StaticCoverage(Normal, REGULAR, NORMAL), {SERIF},
               <<Ch.zhong, Ch.a>>),
      FontInfo(IBMPlex, StaticCoverage(Normal, REGULAR, NORMAL), {MONOSPACE},
               <<Ch.a, Ch.zhong>>) }

\* The `family` arguments of select: lowercased keys, and one that is not
\* lowercased.
FamilyArgs == {NotoSansLower, IBMPlexLower, NotoSans}

\* The requested variants and optical sizes.
Variants ==
    { FontVariant(s, w, st) :
        s \in FontStyles, w \in {REGULAR, SEMIBOLD}, st \in {CONDENSED, NORMAL} }

\* The variants requested of select_fallback.
FallbackVariants ==
    { FontVariant(s, REGULAR, st) :
        s \in {Normal, Italic}, st \in {CONDENSED, NORMAL} }

OpticalSizes == {None, Some(6)}

\* The `like` arguments of select_fallback.
Likes ==
    { None,
      Some(FontInfo(NotoSansArabic, StaticCoverage(Normal, REGULAR, NORMAL), {},
                    <<Ch.a>>)),
      Some(FontInfo(IBMPlex, StaticCoverage(Normal, REGULAR, NORMAL),
                    {MONOSPACE, SERIF}, <<Ch.a>>)) }

\* The `text` arguments of select_fallback.
Texts ==
    { <<Ch.space, Ch.shy>>, <<Ch.space, Ch.zhong, Ch.a>>, <<Ch.shy, Ch.a, Ch.zhong>>,
      <<Ch.b>> }

\* ----------------------------------------------------------------- actions

NoCoverageOp == [op |-> "none"]

\* The threads that share the book by immutable reference.
Threads == 1..MaxThreads

\* No thread has called a query yet.
NoCalls == [t \in Threads |-> [pc |-> "unstarted"]]

\* let mut best = None; let mut best_key = None;
NewScratch == [best |-> None, best_key |-> None]

NoScratch == [t \in Threads |-> NewScratch]

\* FontBook::new(), before any operation.
Init ==
    /\ families = NewFamilies
    /\ infos = NewInfos
    /\ last = [op |-> "new"]
    /\ codepoints = <<>>
    /\ coverage = None
    /\ cov = NoCoverageOp
    /\ threads = NoCalls
    /\ scratch = NoScratch

\* book.push(info)
Push ==
    /\ Len(infos) < MaxFaces
    /\ \E info \in Faces :
        /\ families' = push_families(Book, info)
        /\ infos' = push_infos(Book, info)
        /\ last' = [op |-> "push", info |-> info]
    /\ UNCHANGED <<codepoints, coverage, cov, threads, scratch>>

\* `last` records only the latest call and a query leaves the book as it
\* is, so a query that follows another query reaches the state the same
\* query reaches right after the push: queries are taken from there.
Fresh == last.op \in {"new", "push"}

\* book.select(family, variant, optical_size)
Select ==
    /\ Fresh
    /\ \E family \in FamilyArgs, variant \in Variants, optical_size \in OpticalSizes :
        last' = [op |-> "select", family |-> family, variant |-> variant,
                 optical_size |-> optical_size,
                 result |-> select(Book, family, variant, optical_size)]
    /\ UNCHANGED <<families, infos, codepoints, coverage, cov, threads, scratch>>

\* book.select_fallback(like, variant, text, optical_size)
SelectFallback ==
    /\ Fresh
    /\ \E like \in Likes, variant \in FallbackVariants, text \in Texts,
          optical_size \in OpticalSizes :
        last' = [op |-> "select_fallback", like |-> like, variant |-> variant,
                 text |-> text, optical_size |-> optical_size,
                 result |-> select_fallback(Book, like, variant, text, optical_size)]
    /\ UNCHANGED <<families, infos, codepoints, coverage, cov, threads, scratch>>

Next == Push \/ Select \/ SelectFallback

Spec == Init /\ [][Next]_vars

\* ------------------------------------------------------ coverage operations

\* The inputs of tests::test_coverage and tests::test_coverage_iter.
TestVectors ==
    { <<>>, <<0>>, <<1>>, <<0, 1>>, <<0, 1, 3>>,
      <<18, 19, 2, 4, 9, 11, 15, 3, 3, 10>>,
      <<2, 3, 7, 8, 9, 14, 15, 19, 21>> }

\* Every sequence of at most MaxLen codepoints of 0..MaxCp: unsorted ones
\* and ones with duplicates among them.
BoundedInputs == UNION { [1..n -> 0..MaxCp] : n \in 0..MaxLen }

InitCoverage ==
    /\ families = NewFamilies
    /\ infos = NewInfos
    /\ last = [op |-> "new"]
    /\ codepoints \in BoundedInputs \cup TestVectors
    /\ coverage = None
    /\ cov = NoCoverageOp
    /\ threads = NoCalls
    /\ scratch = NoScratch

\* Coverage::from_vec(codepoints)
FromVec ==
    /\ ~coverage.some
    /\ coverage' = Some(from_vec(codepoints))
    /\ cov' = [op |-> "from_vec"]
    /\ UNCHANGED <<families, infos, last, codepoints, threads, scratch>>

\* The codepoints membership is queried for.
Queried ==
    0..((IF codepoints = <<>> THEN 0 ELSE SetMax(Range(codepoints))) + Margin)

\* coverage.contains(c)
Contains ==
    /\ coverage.some
    /\ \E c \in Queried :
        cov' = [op |-> "contains", c |-> c, result |-> contains(coverage.val, c)]
    /\ UNCHANGED <<families, infos, last, codepoints, coverage, threads, scratch>>

\* coverage.iter().collect()
Iter ==
    /\ coverage.some
    /\ cov' = [op |-> "iter", result |-> iter(coverage.val)]
    /\ UNCHANGED <<families, infos, last, codepoints, coverage, threads, scratch>>

NextCoverage == FromVec \/ Contains \/ Iter

SpecCoverage == InitCoverage /\ [][NextCoverage]_vars

\* ---------------------------------------------------- coverage properties

HasDuplicates(s) == \E i, j \in 1..Len(s) : i < j /\ s[i] = s[j]

Unsorted(s) == \E i, j \in 1..Len(s) : i < j /\ s[i] > s[j]

StrictlyAscending(s) == \A i \in 1..(Len(s) - 1) : s[i] < s[i + 1]

\* C8: whatever sequence of codepoints (unsorted, with duplicates) the
\* coverage was built from, contains(c) answers true exactly for the
\* codepoints of the input, also for every c above the largest of them.
ContainsIsMembership ==
    cov.op = "contains" => (cov.result <=> cov.c \in Range(codepoints))

\* A membership query answered true on a coverage built from an unsorted
\* input with duplicates.
ContainsIsMembershipWitness ==
    /\ cov.op = "contains"
    /\ cov.result
    /\ Unsorted(codepoints)
    /\ HasDuplicates(codepoints)

\* C9: iter yields exactly the distinct codepoints of the input, each once,
\* in strictly ascending order.
IterYieldsDistinctAscending ==
    cov.op = "iter" =>
        /\ StrictlyAscending(cov.result)
        /\ Range(cov.result) = Range(codepoints)

\* An iteration over a coverage built from an unsorted input with
\* duplicates: fewer codepoints come out than went in.
IterYieldsDistinctAscendingWitness ==
    /\ cov.op = "iter"
    /\ Unsorted(codepoints)
    /\ HasDuplicates(codepoints)
    /\ Len(cov.result) >= 2
    /\ Len(cov.result) < Len(codepoints)

\* The first codepoint of run i of a run vector.
RunStart(runs, i) == SumSeq(SubSeq(runs, 1, i - 1))

\* C10: the run vector is empty for an empty input; otherwise it alternates
\* out-run, in-run from an out-run on (the codepoints of the odd runs are not
\* in the input, those of the even runs are, and the last run is an in-run),
\* no run after the first is zero, and the runs sum to the largest input
\* codepoint plus 1.  {2,3,4,9,10,11,15,18,19} encodes to [2,3,4,3,3,1,2,2].
RunsAlternate ==
    coverage.some =>
        LET runs == coverage.val
            input == Range(codepoints)
        IN  /\ (codepoints = <<>>) => runs = <<>>
            /\ (codepoints # <<>>) =>
                /\ Len(runs) >= 2
                /\ Len(runs) % 2 = 0
                /\ runs[1] >= 0
                /\ \A i \in 2..Len(runs) : runs[i] > 0
                /\ \A i \in 1..Len(runs) :
                    \A c \in RunStart(runs, i)..(RunStart(runs, i) + runs[i] - 1) :
                        (c \in input) <=> (i % 2 = 0)
                /\ SumSeq(runs) = SetMax(input) + 1
            /\ (input = {2, 3, 4, 9, 10, 11, 15, 18, 19}) =>
                runs = <<2, 3, 4, 3, 3, 1, 2, 2>>

\* A run vector of several runs whose first out-run is zero, built from an
\* unsorted input.
RunsAlternateWitness ==
    /\ coverage.some
    /\ Unsorted(codepoints)
    /\ Len(coverage.val) >= 4
    /\ coverage.val[1] = 0

\* ----------------------------------------------------- catalog properties

\* The indices of the faces of the book, and the face of an index.
Indices == 0..(Len(infos) - 1)

Face(i) == infos[i + 1]

\* k is s with every uppercase letter replaced by its lowercase letter.
UpperToLower == { <<UpperChars[j], LowerChars[j]>> : j \in 1..26 }

UpperSet == Range(UpperChars)

IsLowercaseOf(k, s) ==
    /\ Len(k) = Len(s)
    /\ \A i \in 1..Len(s) :
        IF s[i] \in UpperSet THEN <<s[i], k[i]>> \in UpperToLower ELSE k[i] = s[i]

\* a comes strictly before b in the lexicographic order of integer tuples
\* of one length.
RECURSIVE TupleLess(_, _)
TupleLess(a, b) ==
    /\ a # <<>>
    /\ \/ a[1] < b[1]
       \/ a[1] = b[1] /\ TupleLess(Tail(a), Tail(b))

\* The number of leading words two family strings agree on.
SharedWords(l, r) ==
    LET wl == unicode_words(l)
        wr == unicode_words(r)
        m == IF Len(wl) < Len(wr) THEN Len(wl) ELSE Len(wr)
    IN  CHOOSE n \in 0..m :
            /\ \A i \in 1..n : wl[i] = wr[i]
            /\ n = m \/ wl[n + 1] # wr[n + 1]

\* (style, stretch, weight) distance of a face to the requested variant.
VariantRank(face, variant) ==
    LET d == distance(face.variant_coverage, variant)
    IN  <<d.style, d.stretch, d.weight>>

\* The order of the candidates when `like` is supplied: monospace mismatch,
\* serif mismatch, more shared words first, shorter family, then distance.
LikeRank(face, like, variant) ==
    << IF (MONOSPACE \in face.flags) = (MONOSPACE \in like.flags) THEN 0 ELSE 1,
       IF (SERIF \in face.flags) = (SERIF \in like.flags) THEN 0 ELSE 1,
       0 - SharedWords(face.family, like.family),
       Len(face.family) >> \o VariantRank(face, variant)

\* The rank of a face for the query recorded in q.
QueryRank(face, q) ==
    IF q.op = "select_fallback" /\ q.like.some
    THEN LikeRank(face, q.like.val, q.variant)
    ELSE VariantRank(face, q.variant)

IsQuery(q) == q.op \in {"select", "select_fallback"}

\* The first character of a text that is neither whitespace nor default
\* ignorable, if there is one.
Shapable(text) ==
    { i \in 1..Len(text) : ~is_whitespace(text[i]) /\ ~is_default_ignorable(text[i]) }

FirstShapable(text) == text[CHOOSE i \in Shapable(text) : \A j \in Shapable(text) : i <= j]

\* The indices of the faces whose coverage contains codepoint c.
Covering(c) == { i \in Indices : contains(Face(i).coverage, c) }

\* Index w is, among the indices of `pool`, the first one of the smallest
\* rank for query q.
FirstSmallest(w, pool, q) ==
    /\ w \in pool
    /\ LET rw == QueryRank(Face(w), q)
       IN  \A j \in pool \ {w} :
               LET rj == QueryRank(Face(j), q)
               IN  /\ ~TupleLess(rj, rw)
                   /\ rj = rw => w <= j

\* C1: select returns, among the faces of families[family], the one whose
\* (style, stretch, weight) distance is lexicographically smallest, and the
\* one inserted first among those of the smallest distance.
SelectReturnsFirstSmallest ==
    (last.op = "select" /\ last.family \in DOMAIN families) =>
        /\ last.result.some
        /\ FirstSmallest(last.result.val.index, Range(families[last.family]), last)

\* select chose the second face of a family of two although the first is
\* nearer in weight: its style distance is the smaller one.
SelectReturnsFirstSmallestWitness ==
    /\ last.op = "select"
    /\ last.result.some
    /\ last.family \in DOMAIN families
    /\ families[last.family] = <<0, 1>>
    /\ last.result.val.index = 1
    /\ distance(Face(0).variant_coverage, last.variant).weight
         < distance(Face(1).variant_coverage, last.variant).weight
    /\ distance(Face(0).variant_coverage, last.variant).style
         > distance(Face(1).variant_coverage, last.variant).style

\* C2: with `like` supplied, select_fallback orders the candidates by
\* monospace mismatch, then serif mismatch, then more shared leading family
\* words (case-sensitive), then shorter family, and only then by (style,
\* stretch, weight) distance; with like = "Noto Sans Arabic", "Noto Sans"
\* beats "Noto Sans CJK HK" of equal flags and variant.
FallbackOrdersByLike ==
    (last.op = "select_fallback" /\ last.like.some /\ last.result.some) =>
        LET pool == Covering(FirstShapable(last.text))
            w == last.result.val.index
            rw == LikeRank(Face(w), last.like.val, last.variant)
        IN  /\ w \in pool
            /\ \A j \in pool \ {w} :
                ~TupleLess(LikeRank(Face(j), last.like.val, last.variant), rw)
            /\ last.like.val.family = NotoSansArabic =>
                \A i, j \in pool :
                    ( /\ Face(i).family = NotoSans
                      /\ Face(j).family = NotoSansCJK
                      /\ Face(i).flags = Face(j).flags
                      /\ Face(i).variant_coverage = Face(j).variant_coverage )
                    => w # j

\* select_fallback with `like` chose a face that is farther from the
\* requested variant than another candidate, which shares fewer words with
\* like.family although both match its flags.
FallbackOrdersByLikeWitness ==
    /\ last.op = "select_fallback"
    /\ last.like.some
    /\ last.result.some
    /\ \E j \in Covering(FirstShapable(last.text)) :
        LET w == last.result.val.index
        IN  /\ TupleLess(VariantRank(Face(j), last.variant),
                         VariantRank(Face(w), last.variant))
            /\ Face(j).flags = Face(w).flags
            /\ SharedWords(Face(j).family, last.like.val.family)
                 < SharedWords(Face(w).family, last.like.val.family)
            /\ Len(Face(j).family) < Len(Face(w).family)

\* C3: select_fallback takes the first character of the text that is
\* neither whitespace nor default ignorable; it returns none if there is
\* none or if no face covers it, and otherwise the first face of the
\* smallest rank among exactly the faces whose coverage contains it.
FallbackPoolIsCovering ==
    last.op = "select_fallback" =>
        IF Shapable(last.text) = {} THEN last.result = None
        ELSE LET pool == Covering(FirstShapable(last.text))
             IN  IF pool = {} THEN last.result = None
                 ELSE /\ last.result.some
                      /\ FirstSmallest(last.result.val.index, pool, last)

\* select_fallback skipped a leading whitespace or ignorable character and
\* returned a face that covers the next one, from a book that also holds a
\* face that does not cover it.
FallbackPoolIsCoveringWitness ==
    /\ last.op = "select_fallback"
    /\ last.result.some
    /\ 1 \notin Shapable(last.text)
    /\ \E i \in Indices : i \notin Covering(FirstShapable(last.text))

\* The result of the query recorded in q on `book`.
Requery(book, q) ==
    IF q.op = "select"
    THEN select(book, q.family, q.variant, q.optical_size)
    ELSE select_fallback(book, q.like, q.variant, q.text, q.optical_size)

\* C4: if a query returned winner w on the book of the first k faces and
\* every face pushed after them has a key strictly greater than w's for that
\* query, the query returns the same index and instance parameters on the
\* grown book.
PoolGrowthKeepsWinner ==
    IsQuery(last) =>
        \A k \in 1..(Len(infos) - 1) :
            LET base == from_infos(SubSeq(infos, 1, k))
                r == Requery(base, last)
            IN  ( /\ r.some
                  /\ \A i \in (k + 1)..Len(infos) :
                        TupleLess(QueryRank(infos[r.val.index + 1], last),
                                  QueryRank(infos[i], last)) )
                => last.result = r

\* A query on a book of two faces returns the first face; the second has a
\* strictly greater key and is a candidate of the query too.
PoolGrowthKeepsWinnerWitness ==
    /\ IsQuery(last)
    /\ Len(infos) = 2
    /\ last.result.some
    /\ last.result.val.index = 0
    /\ TupleLess(QueryRank(infos[1], last), QueryRank(infos[2], last))
    /\ IF last.op = "select"
       THEN families[last.family] = <<0, 1>>
       ELSE Covering(FirstShapable(last.text)) = {0, 1}

\* C5: every index stored in families[k] is the index of a face whose
\* lowercased family string is k.
FamilyKeyIsLowercasedFamily ==
    \A k \in DOMAIN families :
        \A p \in 1..Len(families[k]) :
            /\ families[k][p] \in Indices
            /\ IsLowercaseOf(k, Face(families[k][p]).family)

\* One family list holds two faces whose family strings differ in case.
FamilyKeyIsLowercasedFamilyWitness ==
    \E k \in DOMAIN families :
        /\ families[k] = <<0, 1>>
        /\ Face(0).family # Face(1).family
        /\ Face(0).family # k

\* Index i is in the list of family key k.
Listed(fams, k, i) == k \in DOMAIN fams /\ i \in Range(fams[k])

\* C6: a push gives the pushed face the index equal to the number of faces
\* pushed before it, also when an equal face was pushed before, and leaves
\* the face of every earlier index and its membership in the family lists as
\* they were.
PushAppendsOnly ==
    [][ (infos' # infos \/ families' # families) =>
            /\ last'.op = "push"
            /\ Len(infos') = Len(infos) + 1
            /\ infos'[Len(infos) + 1] = last'.info
            /\ \E k \in DOMAIN families' : Listed(families', k, Len(infos))
            /\ \A i \in 1..Len(infos) : infos'[i] = infos[i]
            /\ \A k \in DOMAIN families \cup DOMAIN families' :
                \A i \in 0..(Len(infos) - 1) :
                    Listed(families', k, i) <=> Listed(families, k, i)
      ]_vars

\* The same face was pushed twice and holds indices 0 and 1 of one family.
PushAppendsOnlyWitness ==
    /\ last.op = "push"
    /\ Len(infos) = 2
    /\ infos[1] = infos[2]
    /\ \E k \in DOMAIN families : families[k] = <<0, 1>>

\* C7: select returns none exactly when no pushed face has a lowercased
\* family string equal to the `family` argument; when the key is present the
\* returned index is a member of families[family].
SelectNoneIffNoFamily ==
    last.op = "select" =>
        /\ (last.result = None)
             <=> ~(\E i \in Indices : IsLowercaseOf(last.family, Face(i).family))
        /\ last.family \in DOMAIN families =>
             /\ last.result.some
             /\ last.result.val.index \in Range(families[last.family])

\* select was given a family string that is not lowercased and returned
\* none, although a face of exactly that family string is in the book.
SelectNoneIffNoFamilyWitness ==
    /\ last.op = "select"
    /\ last.result = None
    /\ \E i \in Indices : Face(i).family = last.family

\* ------------------------------------------------- variant model operations

\* The weight and stretch fields, the slant axes and the variant coverages
\* that supports and distance are applied to: static and variable fields
\* (a range of several values, a range of one value), slnt axes that reach
\* below zero with min, with max only, or not at all, and both ital axes.
WeightFields ==
    { Static(REGULAR), Static(BOLD), Variable(200, BOLD, REGULAR),
      Variable(LIGHT, LIGHT, LIGHT) }

StretchFields ==
    { Static(NORMAL), Static(CONDENSED), Variable(CONDENSED, 1250, NORMAL) }

SlantAxes ==
    { SlantNone, Slnt(-12, 0, 0), Slnt(0, 0, 0), Slnt(0, 12, 0), Slnt(2, -3, 0),
      Ital(FALSE), Ital(TRUE) }

Coverages ==
    { FontVariantCoverage(s, w, st, sl, OpszNone) :
        s \in FontStyles, w \in WeightFields, st \in StretchFields,
        sl \in SlantAxes }

\* The requested variants: weights and stretches below, inside, on the ends
\* of and above the ranges.
RequestedVariants ==
    { FontVariant(s, w, st) :
        s \in FontStyles, w \in {100, 200, LIGHT, REGULAR, SEMIBOLD, BOLD, 900},
        st \in {500, CONDENSED, NORMAL, 1250, 1500} }

\* coverage.supports(&variant)
Supports ==
    /\ last.op = "new"
    /\ \E c \in Coverages, variant \in RequestedVariants :
        last' = [op |-> "supports", coverage |-> c, variant |-> variant,
                 result |-> supports(c, variant)]
    /\ UNCHANGED <<families, infos, codepoints, coverage, cov, threads, scratch>>

\* coverage.distance(&variant)
Distance ==
    /\ last.op = "new"
    /\ \E c \in Coverages, variant \in RequestedVariants :
        last' = [op |-> "distance", coverage |-> c, variant |-> variant,
                 result |-> distance(c, variant)]
    /\ UNCHANGED <<families, infos, codepoints, coverage, cov, threads, scratch>>

NextVariant == Supports \/ Distance

SpecVariant == Init /\ [][NextVariant]_vars

\* ------------------------------------------------- variant model properties

\* C11: whenever a coverage supports a requested variant, the distance of
\* the coverage to that variant has weight distance 0 and stretch distance 0.
SupportedIsAtDistanceZero ==
    (last.op = "supports" /\ last.result) =>
        LET d == distance(last.coverage, last.variant)
        IN  d.weight = 0 /\ d.stretch = 0

\* A supported variant inside a variable weight range, away from the
\* default of the range, with a variable stretch as well.
SupportedIsAtDistanceZeroWitness ==
    /\ last.op = "supports"
    /\ last.result
    /\ last.coverage.weight.tag = "Variable"
    /\ last.coverage.stretch.tag = "Variable"
    /\ last.variant.weight # last.coverage.weight.default
    /\ last.variant.stretch # last.coverage.stretch.default

\* The distance the claim states for a field f and a requested value v.
\* The differences are taken over the integers.
StatedFieldDistance(f, v) ==
    IF f.tag = "Static" THEN (IF f.value >= v THEN f.value - v ELSE v - f.value)
    ELSE IF v < f.start THEN f.start - v
    ELSE IF v > f.end THEN v - f.end
    ELSE 0

\* The faces A (static weight 400) and B (the variable weight of coverage c)
\* of one family, which agree in everything but the weight field.
StaticAndVariableBook(c) ==
    from_infos(<<FontInfo(NotoSans, [c EXCEPT !.weight = Static(REGULAR)], {}, <<>>),
                 FontInfo(NotoSans, c, {}, <<>>)>>)

\* C12: the weight and stretch distances of a coverage are, for a Variable
\* field, 0 exactly when the requested value lies in the inclusive range,
\* the distance to range.start below the range and to range.end above it,
\* and for a Static field the plain distance to the static value; so for a
\* request of weight 600 a face of variable weight 200..=700 is at weight
\* distance 0, a static 400 face at 200, and select prefers the variable
\* face, instantiated at 600.
FieldDistanceIsDistanceToRange ==
    last.op = "distance" =>
        LET c == last.coverage
            v == last.variant
        IN  /\ last.result.weight = StatedFieldDistance(c.weight, v.weight)
            /\ last.result.stretch = StatedFieldDistance(c.stretch, v.stretch)
            /\ c.weight.tag = "Variable" =>
                (last.result.weight = 0
                    <=> (c.weight.start <= v.weight /\ v.weight <= c.weight.end))
            /\ c.stretch.tag = "Variable" =>
                (last.result.stretch = 0
                    <=> (c.stretch.start <= v.stretch /\ v.stretch <= c.stretch.end))
            /\ (c.weight = Variable(200, BOLD, REGULAR) /\ v.weight = SEMIBOLD) =>
                /\ last.result.weight = 0
                /\ distance([c EXCEPT !.weight = Static(REGULAR)], v).weight = 200
                /\ LET r == select(StaticAndVariableBook(c), NotoSansLower, v, None)
                   IN  /\ r.some
                       /\ r.val.index = 1
                       /\ r.val.instance_params.weight = Some(SEMIBOLD)

\* A distance to a variable weight from below its range and to a variable
\* stretch from above its range.
FieldDistanceIsDistanceToRangeWitness ==
    /\ last.op = "distance"
    /\ last.coverage.weight.tag = "Variable"
    /\ last.coverage.stretch.tag = "Variable"
    /\ last.variant.weight < last.coverage.weight.start
    /\ last.variant.stretch > last.coverage.stretch.end
    /\ last.result.weight > 0
    /\ last.result.stretch > 0

\* The base style distance as the claims state it: 0 for equal styles, 1 for
\* two different styles neither of which is Normal, 2 when exactly one of
\* two different styles is Normal.
BaseStyleDistance(a, b) ==
    CASE a = b -> 0
      [] a # b /\ Normal \notin {a, b} -> 1
      [] a # b /\ Normal \in {a, b} -> 2

\* C13: for a face with a Slnt{min, max} axis the style distance is 0 when
\* the face style equals the requested style, 0 when the face is Normal, the
\* request is Italic or Oblique and min < 0 or max < 0, and the base style
\* distance in every other case.
SlntStyleDistance ==
    (last.op = "distance" /\ last.coverage.slant_axis.tag = "Slnt") =>
        LET c == last.coverage
            v == last.variant
            promoted ==
                /\ c.style = Normal
                /\ v.style \in {Italic, Oblique}
                /\ (c.slant_axis.min < 0 \/ c.slant_axis.max < 0)
        IN  /\ c.style = v.style => last.result.style = 0
            /\ promoted => last.result.style = 0
            /\ (c.style # v.style /\ ~promoted) =>
                last.result.style = BaseStyleDistance(c.style, v.style)

\* A Normal face whose slnt axis is negative at max only, asked for Oblique:
\* the distance is 0 although the base distance is 2.
SlntStyleDistanceWitness ==
    /\ last.op = "distance"
    /\ last.coverage.slant_axis.tag = "Slnt"
    /\ last.coverage.slant_axis.min >= 0
    /\ last.coverage.slant_axis.max < 0
    /\ last.coverage.style = Normal
    /\ last.variant.style = Oblique
    /\ last.result.style = 0

\* C14 as stated: for a face with an Ital axis the style distance is 0 for
\* equal styles and for a Normal/Italic pair in either direction, and every
\* pair of different styles that involves Oblique keeps the base distance.
ItalObliqueKeepsBaseDistance ==
    (last.op = "distance" /\ last.coverage.slant_axis.tag = "Ital") =>
        LET c == last.coverage
            v == last.variant
        IN  /\ c.style = v.style => last.result.style = 0
            /\ {c.style, v.style} = {Normal, Italic} => last.result.style = 0
            /\ (c.style # v.style /\ Oblique \in {c.style, v.style}) =>
                last.result.style = BaseStyleDistance(c.style, v.style)

\* C14, amended: for a face with an Ital axis the style distance is 0 for
\* equal styles, for a Normal face asked for Italic or Oblique, and for an
\* Italic face asked for Normal; the other pairs of different styles (an
\* Italic face asked for Oblique, an Oblique face asked for Italic or
\* Normal) keep the base style distance.
ItalStyleDistance ==
    (last.op = "distance" /\ last.coverage.slant_axis.tag = "Ital") =>
        LET c == last.coverage
            v == last.variant
        IN  /\ c.style = v.style => last.result.style = 0
            /\ (c.style = Normal /\ v.style \in {Italic, Oblique}) =>
                last.result.style = 0
            /\ (c.style = Italic /\ v.style = Normal) => last.result.style = 0
            /\ ( \/ (c.style = Italic /\ v.style = Oblique)
                 \/ (c.style = Oblique /\ v.style \in {Italic, Normal}) ) =>
                last.result.style = BaseStyleDistance(c.style, v.style)

\* A Normal face with an ital axis asked for Oblique: distance 0.
ItalStyleDistanceWitness ==
    /\ last.op = "distance"
    /\ last.coverage.slant_axis.tag = "Ital"
    /\ last.coverage.style = Normal
    /\ last.variant.style = Oblique
    /\ last.result.style = 0

\* ------------------------------------------- instance parameter operations

\* Faces of one family with every kind of axis: static faces, a wght axis,
\* a wdth axis, slnt axes (min below max, and max below min, which the type
\* admits), both ital axes, opsz axes (default inside and outside the range,
\* and min above max, which the type admits as well: the fields are public
\* and deserializable), and a face with all four axes.
AxisCoverages ==
    { StaticCoverage(Normal, REGULAR, NORMAL),
      StaticCoverage(Italic, BOLD, CONDENSED),
      FontVariantCoverage(Normal, Variable(200, BOLD, REGULAR), Static(NORMAL),
                          SlantNone, OpszNone),
      FontVariantCoverage(Normal, Static(REGULAR), Variable(CONDENSED, 1250, NORMAL),
                          SlantNone, OpszNone),
      FontVariantCoverage(Normal, Static(REGULAR), Static(NORMAL),
                          Slnt(-12, 0, 0), OpszNone),
      FontVariantCoverage(Normal, Static(REGULAR), Static(NORMAL),
                          Slnt(2, -3, 1), OpszNone),
      FontVariantCoverage(Normal, Static(REGULAR), Static(NORMAL),
                          Ital(FALSE), OpszNone),
      FontVariantCoverage(Italic, Static(REGULAR), Static(NORMAL),
                          Ital(TRUE), OpszNone),
      FontVariantCoverage(Normal, Static(REGULAR), Static(NORMAL),
                          SlantNone, Opsz(8, 144, 14)),
      FontVariantCoverage(Normal, Static(REGULAR), Static(NORMAL),
                          SlantNone, Opsz(10, 20, 30)),
      FontVariantCoverage(Normal, Static(REGULAR), Static(NORMAL),
                          SlantNone, Opsz(144, 8, 14)),
      FontVariantCoverage(Normal, Variable(LIGHT, SEMIBOLD, REGULAR),
                          Variable(CONDENSED, NORMAL, NORMAL),
                          Slnt(-12, 0, 0), Opsz(8, 144, 14)) }

AxisFaces == { FontInfo(NotoSans, c, {}, <<Ch.a>>) : c \in AxisCoverages }

\* The requested variants: weights and stretches below, inside and above
\* the ranges of the faces.
InstanceVariants ==
    { FontVariant(s, w, st) :
        s \in FontStyles, w \in {100, REGULAR, 900}, st \in {500, NORMAL, 1500} }

\* The requested optical sizes: none, below, inside and above the ranges.
InstanceOpticalSizes == {None, Some(6), Some(12), Some(200)}

\* book.push(info) of a face of AxisFaces
PushAxisFace ==
    /\ Len(infos) < MaxFaces
    /\ \E info \in AxisFaces :
        /\ families' = push_families(Book, info)
        /\ infos' = push_infos(Book, info)
        /\ last' = [op |-> "push", info |-> info]
    /\ UNCHANGED <<codepoints, coverage, cov, threads, scratch>>

\* book.select("noto sans", variant, optical_size)
SelectInstance ==
    /\ Fresh
    /\ \E variant \in InstanceVariants, optical_size \in InstanceOpticalSizes :
        last' = [op |-> "select", family |-> NotoSansLower, variant |-> variant,
                 optical_size |-> optical_size,
                 result |-> select(Book, NotoSansLower, variant, optical_size)]
    /\ UNCHANGED <<families, infos, codepoints, coverage, cov, threads, scratch>>

\* book.select_fallback(like, variant, "a", optical_size)
SelectFallbackInstance ==
    /\ Fresh
    /\ \E like \in Likes, variant \in InstanceVariants,
          optical_size \in InstanceOpticalSizes :
        last' = [op |-> "select_fallback", like |-> like, variant |-> variant,
                 text |-> <<Ch.a>>, optical_size |-> optical_size,
                 result |-> select_fallback(Book, like, variant, <<Ch.a>>,
                                            optical_size)]
    /\ UNCHANGED <<families, infos, codepoints, coverage, cov, threads, scratch>>

NextInstance == PushAxisFace \/ SelectInstance \/ SelectFallbackInstance

SpecInstance == Init /\ [][NextInstance]_vars

\* ------------------------------------------- instance parameter properties

\* A select or select_fallback that returned a face.
Selected == last.op \in {"select", "select_fallback"} /\ last.result.some

\* The variant coverage of the face the last query returned, and the
\* instance parameters returned with it.
Winner == Face(last.result.val.index).variant_coverage

Params == last.result.val.instance_params

\* C15: when the face select or select_fallback returns is static (static
\* weight and stretch, no slant axis, no opsz axis), the instance parameters
\* of the returned key are empty: no weight, stretch, slant, italic or
\* optical size is set, whatever variant and optical size were requested.
StaticWinnerHasNoParameters ==
    ( /\ Selected
      /\ Winner.weight.tag = "Static"
      /\ Winner.stretch.tag = "Static"
      /\ Winner.slant_axis.tag = "None"
      /\ Winner.optical_size_axis.tag = "None" ) =>
        /\ ~Params.weight.some
        /\ ~Params.stretch.some
        /\ ~Params.slant.some
        /\ ~Params.italic.some
        /\ ~Params.optical_size.some

\* A static face won against a variable face of the book, for a request
\* with an optical size whose weight and stretch the static face does not
\* have.
StaticWinnerHasNoParametersWitness ==
    /\ Selected
    /\ ~is_variable(Winner)
    /\ \E i \in Indices : is_variable(Face(i).variant_coverage)
    /\ last.optical_size.some
    /\ Winner.weight.value # last.variant.weight
    /\ Winner.stretch.value # last.variant.stretch

\* The instance value x is the request v clamped into the range of field f.
IsClampedInto(x, v, f) ==
    /\ (f.start <= v /\ v <= f.end) => x = v
    /\ v < f.start => x = f.start
    /\ v > f.end => x = f.end
    /\ f.start <= x /\ x <= f.end

\* C16: when the returned face has a Variable weight (stretch) field, the
\* instance weight (stretch) is set to the requested value clamped into the
\* range of the field: the request itself inside the range, the nearer end
\* outside of it, and so always a value of the range; a Static weight
\* (stretch) field sets no instance weight (stretch).
VariableFieldIsClamped ==
    Selected =>
        /\ Winner.weight.tag = "Variable" =>
            /\ Params.weight.some
            /\ IsClampedInto(Params.weight.val, last.variant.weight, Winner.weight)
        /\ Winner.weight.tag = "Static" => ~Params.weight.some
        /\ Winner.stretch.tag = "Variable" =>
            /\ Params.stretch.some
            /\ IsClampedInto(Params.stretch.val, last.variant.stretch, Winner.stretch)
        /\ Winner.stretch.tag = "Static" => ~Params.stretch.some

\* A face with a variable weight and a variable stretch was returned for a
\* weight above its range and a stretch below its range.
VariableFieldIsClampedWitness ==
    /\ Selected
    /\ Winner.weight.tag = "Variable"
    /\ Winner.stretch.tag = "Variable"
    /\ last.variant.weight > Winner.weight.end
    /\ last.variant.stretch < Winner.stretch.start
    /\ Params.weight = Some(Winner.weight.end)
    /\ Params.stretch = Some(Winner.stretch.start)

\* C17: when the returned face has a Slnt{min, max, default} axis, the
\* instance slant is `default` for a Normal request and the smaller of min
\* and max for an Italic or Oblique request (-12 for Slnt{-12, 0, 0} and
\* Italic); when it has an Ital axis, the instance italic flag is true
\* exactly for an Italic or Oblique request; with no slant axis neither
\* the slant nor the italic flag is set.
SlantParameterFollowsStyle ==
    Selected =>
        LET axis == Winner.slant_axis
            style == last.variant.style
        IN  /\ axis.tag = "Slnt" =>
                /\ Params.slant.some
                /\ style = Normal => Params.slant.val = axis.default
                /\ style \in {Italic, Oblique} =>
                    /\ Params.slant.val \in {axis.min, axis.max}
                    /\ Params.slant.val <= axis.min
                    /\ Params.slant.val <= axis.max
                /\ (axis = Slnt(-12, 0, 0) /\ style = Italic) =>
                    Params.slant.val = -12
            /\ axis.tag = "Ital" =>
                /\ Params.italic.some
                /\ Params.italic.val <=> style \in {Italic, Oblique}
            /\ axis.tag = "None" =>
                /\ ~Params.slant.some
                /\ ~Params.italic.some

\* A face with the axis Slnt{-12, 0, 0} was returned for an Italic request,
\* with the instance slant -12, which is not its default.
SlantParameterFollowsStyleWitness ==
    /\ Selected
    /\ Winner.slant_axis = Slnt(-12, 0, 0)
    /\ last.variant.style = Italic
    /\ Params.slant = Some(-12)
    /\ Params.slant.val # Winner.slant_axis.default

\* C18: for every returned face with an Opsz{min, max, default} axis, every
\* axis triple a face can carry and every optional optical size, select and
\* select_fallback complete without a panic and set the instance optical
\* size to the supplied optical size, or else the default, clamped into
\* [min, max], so that it lies in [min, max].
OpszIsClampedWithoutPanic ==
    last.op \in {"select", "select_fallback"} =>
        /\ "panic" \notin DOMAIN last.result
        /\ (last.result.some /\ Winner.optical_size_axis.tag = "Opsz") =>
            LET axis == Winner.optical_size_axis
                v == IF last.optical_size.some THEN last.optical_size.val
                     ELSE axis.default
            IN  /\ Params.optical_size.some
                /\ IsClampedInto(Params.optical_size.val, v,
                                 [start |-> axis.min, end |-> axis.max])

\* -------------------------------------------------------------- families()

\* Largest number of faces pushed before families() is called.
MaxFamilyFaces == 3

\* Faces of four family keys, two of them spelled in two ways; one key is a
\* proper prefix of another.
FamilyFaces ==
    { FontInfo(f, StaticCoverage(Normal, REGULAR, NORMAL), {}, <<Ch.a>>) :
        f \in {NotoSans, NotoSansLower, NotoSansCJK, NotoSerif, IBMPlex, IBMPlexLower} }

\* book.push(info) of a face of FamilyFaces
PushFamilyFace ==
    /\ Len(infos) < MaxFamilyFaces
    /\ \E face \in FamilyFaces :
        /\ families' = push_families(Book, face)
        /\ infos' = push_infos(Book, face)
        /\ last' = [op |-> "push", info |-> face]
    /\ UNCHANGED <<codepoints, coverage, cov, threads, scratch>>

\* book.families(), with every inner iterator collected
Families ==
    /\ Fresh
    /\ last' = [op |-> "families", result |-> families_iter(Book)]
    /\ UNCHANGED <<families, infos, codepoints, coverage, cov, threads, scratch>>

NextFamilies == PushFamilyFace \/ Families

SpecFamilies == Init /\ [][NextFamilies]_vars

\* The key of the map that is the lowercased family string s.
KeyOf(s) == CHOOSE k \in DOMAIN families : IsLowercaseOf(k, s)

\* The faces whose lowercased family is k.
Members(k) == {j \in Indices : IsLowercaseOf(k, Face(j).family)}

\* a comes strictly before b in the bytewise lexicographic order: they agree
\* up to a position where a has ended and b has not, or where a has the
\* smaller byte.
ComesBefore(a, b) ==
    \E p \in 1..(Len(a) + 1) :
        /\ \A q \in 1..(p - 1) : q <= Len(b) /\ a[q] = b[q]
        /\ \/ p = Len(a) + 1 /\ Len(b) >= p
           \/ p <= Len(a) /\ p <= Len(b) /\ ByteOf[a[p]] < ByteOf[b[p]]

\* C19: families() yields every lowercased family key exactly once, in
\* ascending order of the lowercased key; the name yielded for a key is the
\* family string, in its original case, of the first face pushed for the
\* key, and the indices yielded are all faces of the key in ascending order.
FamiliesInKeyOrder ==
    last.op = "families" =>
        LET out == last.result
        IN  /\ Len(out) = Cardinality(DOMAIN families)
            /\ {KeyOf(out[i].family) : i \in 1..Len(out)} = DOMAIN families
            /\ \A j \in Indices : \E i \in 1..Len(out) : j \in Range(out[i].ids)
            /\ \A i, j \in 1..Len(out) :
                i < j => ComesBefore(KeyOf(out[i].family), KeyOf(out[j].family))
            /\ \A i \in 1..Len(out) :
                LET members == Members(KeyOf(out[i].family))
                IN  /\ Range(out[i].ids) = members
                    /\ Len(out[i].ids) = Cardinality(members)
                    /\ StrictlyAscending(out[i].ids)
                    /\ \E first \in members :
                        /\ \A j \in members : first <= j
                        /\ out[i].family = Face(first).family

\* families() of a book of two keys, pushed in descending key order, where
\* the key yielded first has two faces whose family strings differ and the
\* name yielded is not the key.
FamiliesInKeyOrderWitness ==
    /\ last.op = "families"
    /\ Len(last.result) = 2
    /\ last.result[1].ids = <<1, 2>>
    /\ last.result[2].ids = <<0>>
    /\ Face(1).family # Face(2).family
    /\ last.result[1].family # KeyOf(last.result[1].family)

\* ------------------------------------------------------ concurrent queries

\* The faces of the shared book: two faces of one family that differ in
\* style, weight and coverage, one of them variable, and a face of another
\* family.
SharedFaces ==
    { FontInfo(NotoSans,
               FontVariantCoverage(Normal, Variable(200, BOLD, REGULAR),
                                   Static(NORMAL), SlantNone, OpszNone),
               {}, <<Ch.a>>),
      FontInfo(NotoSans, StaticCoverage(Italic, BOLD, NORMAL), {},
               <<Ch.a, Ch.zhong>>),
      FontInfo(NotoSansCJK, StaticCoverage(Normal, REGULAR, NORMAL), {SERIF},
               <<Ch.zhong>>) }

SharedVariants ==
    { FontVariant(Normal, REGULAR, NORMAL), FontVariant(Italic, BOLD, NORMAL) }

SharedLikes ==
    { Some(FontInfo(NotoSansCJK, StaticCoverage(Normal, REGULAR, NORMAL), {SERIF},
                    <<Ch.a>>)) }

SharedTexts == { <<Ch.space>>, <<Ch.space, Ch.zhong>> }

\* The locals of a call of find_best_variant belong to that call.
scratch_shared(t) == 1

scratch_owner(t) == t

\* The thread's state once its call has returned.
Done(call, result) == [pc |-> "done", call |-> call, result |-> result]

\* The thread's state inside the loop of find_best_variant: `ids` is the
\* rest of the iterator, `filter` the char its faces must cover (in
\* select_fallback, whose iterator filters lazily).
InLoop(call, like, filter, ids) ==
    [pc |-> "loop", call |-> call, like |-> like, filter |-> filter, ids |-> ids]

\* The book is built by its single owner before it is shared.
PushShared ==
    /\ \A t \in Threads : threads[t].pc = "unstarted"
    /\ Len(infos) < MaxFaces
    /\ \E face \in SharedFaces :
        /\ families' = push_families(Book, face)
        /\ infos' = push_infos(Book, face)
        /\ last' = [op |-> "push", info |-> face]
    /\ UNCHANGED <<codepoints, coverage, cov, threads, scratch>>

\* Thread t calls select: the lookup `self.families.get(family)?` and the
\* entry into find_best_variant.
CallSelect(t) ==
    /\ threads[t].pc = "unstarted"
    /\ \E family \in {NotoSansLower}, variant \in SharedVariants :
        LET call == [op |-> "select", family |-> family, variant |-> variant,
                     optical_size |-> None]
        IN  IF family \notin DOMAIN families
            THEN /\ threads' = [threads EXCEPT ![t] = Done(call, None)]
                 /\ UNCHANGED scratch
            ELSE /\ threads' =
                        [threads EXCEPT ![t] = InLoop(call, None, None, families[family])]
                 /\ scratch' = [scratch EXCEPT ![scratch_owner(t)] = NewScratch]
    /\ UNCHANGED <<families, infos, last, codepoints, coverage, cov>>

\* Thread t calls select_fallback: the search of the first shapable char
\* and the entry into find_best_variant with the filtering iterator.
CallSelectFallback(t) ==
    /\ threads[t].pc = "unstarted"
    /\ \E like \in SharedLikes, variant \in SharedVariants, text \in SharedTexts :
        LET call == [op |-> "select_fallback", like |-> like, variant |-> variant,
                     text |-> text, optical_size |-> None]
            c == first_shapable_char(text)
        IN  IF ~c.some
            THEN /\ threads' = [threads EXCEPT ![t] = Done(call, None)]
                 /\ UNCHANGED scratch
            ELSE /\ threads' =
                        [threads EXCEPT
                            ![t] = InLoop(call, like, c,
                                          [i \in 1..Len(infos) |-> i - 1])]
                 /\ scratch' = [scratch EXCEPT ![scratch_owner(t)] = NewScratch]
    /\ UNCHANGED <<families, infos, last, codepoints, coverage, cov>>

\* One iteration of `for id in ids` of the call of thread t.
LoopStep(t) ==
    /\ threads[t].pc = "loop"
    /\ threads[t].ids # <<>>
    /\ LET th == threads[t]
           id == Head(th.ids)
           current == info_at(Book, id)
           o == scratch_owner(t)
           passes == ~th.filter.some \/ contains(current.coverage, th.filter.val)
           key == variant_key(current, th.like, th.call.variant)
       IN  /\ scratch' =
                IF passes /\ replaces_best(scratch[o].best_key, key)
                THEN [scratch EXCEPT ![o] = [best |-> Some(id), best_key |-> Some(key)]]
                ELSE scratch
           /\ threads' = [threads EXCEPT ![t].ids = Tail(th.ids)]
    /\ UNCHANGED <<families, infos, last, codepoints, coverage, cov>>

\* The iterator of the call of thread t is exhausted: the key is built from
\* `best` and the call returns.
Finish(t) ==
    /\ threads[t].pc = "loop"
    /\ threads[t].ids = <<>>
    /\ LET th == threads[t]
           o == scratch_owner(t)
       IN  /\ threads' =
                [threads EXCEPT
                    ![t] = Done(th.call,
                                best_map(Book, scratch[o].best, th.call.variant,
                                         th.call.optical_size))]
           /\ scratch' = [scratch EXCEPT ![o] = NewScratch]
    /\ UNCHANGED <<families, infos, last, codepoints, coverage, cov>>

\* Thread t calls select_family and collects the iterator.
CallSelectFamily(t) ==
    /\ threads[t].pc = "unstarted"
    /\ \E family \in {NotoSansLower} :
        threads' = [threads EXCEPT
                        ![t] = Done([op |-> "select_family", family |-> family],
                                    select_family(Book, family))]
    /\ UNCHANGED <<families, infos, last, codepoints, coverage, cov, scratch>>

\* Thread t calls contains_family.
CallContainsFamily(t) ==
    /\ threads[t].pc = "unstarted"
    /\ \E family \in {NotoSansLower} :
        threads' = [threads EXCEPT
                        ![t] = Done([op |-> "contains_family", family |-> family],
                                    contains_family(Book, family))]
    /\ UNCHANGED <<families, infos, last, codepoints, coverage, cov, scratch>>

\* Thread t calls families and collects the iterators.
CallFamilies(t) ==
    /\ threads[t].pc = "unstarted"
    /\ threads' = [threads EXCEPT
                        ![t] = Done([op |-> "families"], families_iter(Book))]
    /\ UNCHANGED <<families, infos, last, codepoints, coverage, cov, scratch>>

\* Thread t calls info.
CallInfo(t) ==
    /\ threads[t].pc = "unstarted"
    /\ \E index \in {0, MaxFaces} :
        threads' = [threads EXCEPT
                        ![t] = Done([op |-> "info", index |-> index],
                                    book_info(Book, index))]
    /\ UNCHANGED <<families, infos, last, codepoints, coverage, cov, scratch>>

NextConcurrent ==
    \/ PushShared
    \/ \E t \in Threads : CallSelect(t)
    \/ \E t \in Threads : CallSelectFallback(t)
    \/ \E t \in Threads : LoopStep(t)
    \/ \E t \in Threads : Finish(t)
    \/ \E t \in Threads : CallSelectFamily(t)
    \/ \E t \in Threads : CallContainsFamily(t)
    \/ \E t \in Threads : CallFamilies(t)
    \/ \E t \in Threads : CallInfo(t)

SpecConcurrent == Init /\ [][NextConcurrent]_vars

\* What a call returns when it runs alone, start to end, on the book.
RunAlone(call) ==
    CASE call.op = "select" ->
            select(Book, call.family, call.variant, call.optical_size)
      [] call.op = "select_fallback" ->
            select_fallback(Book, call.like, call.variant, call.text,
                            call.optical_size)
      [] call.op = "select_family" -> select_family(Book, call.family)
      [] call.op = "contains_family" -> contains_family(Book, call.family)
      [] call.op = "families" -> families_iter(Book)
      [] call.op = "info" -> book_info(Book, call.index)

\* C20: no step of a query (select, select_family, select_fallback,
\* contains_family, families, info) changes the families map or the infos
\* list, and however the steps of the queries of several threads interleave
\* on a book that is no longer pushed to, every query returns what it
\* returns when it runs alone on that book.
QueriesArePure ==
    [][ (threads' # threads) =>
            /\ families' = families
            /\ infos' = infos
            /\ \A t \in Threads :
                threads'[t].pc = "done" =>
                    threads'[t].result = RunAlone(threads'[t].call) ]_vars

\* Two threads are both inside the loop of find_best_variant, for requests
\* of different variants: one has examined both faces of the book and not
\* yet returned, the other has examined one, and their best candidates
\* differ.
QueriesArePureWitness ==
    /\ threads[1].pc = "loop"
    /\ threads[2].pc = "loop"
    /\ threads[1].call.op = "select"
    /\ threads[2].call.op = "select_fallback"
    /\ threads[1].call.variant # threads[2].call.variant
    /\ Len(threads[1].ids) = 0
    /\ Len(threads[2].ids) = 1
    /\ Len(infos) = 2
    /\ scratch[1].best.some
    /\ scratch[2].best.some
    /\ scratch[1].best # scratch[2].best

\* --------------------------------------------------- FontWeight::distance

\* The stored weight numbers: the numbers of tests::test_font_weight_distance
\* (10 lies below the range of from_number), the ends of 0..900 and their
\* neighbours, and every multiple of 25 between.
WeightNumbers == {w \in 0..900 : w % 25 = 0} \cup {1, 10, 99, 101, 899}

\* FontWeight(a).distance(FontWeight(b))
WeightDistance ==
    /\ last.op = "new"
    /\ \E a \in WeightNumbers, b \in WeightNumbers :
        last' = [op |-> "weight_distance", a |-> a, b |-> b,
                 result |-> weight_distance(a, b),
                 overflow |-> i16_sub_overflows(as_i16(a), as_i16(b))]
    /\ UNCHANGED <<families, infos, codepoints, coverage, cov, threads, scratch>>

NextWeight == WeightDistance

SpecWeight == Init /\ [][NextWeight]_vars

\* C21: for stored weight numbers a and b from 0 to 900 the weight distance
\* is the absolute difference of the numbers, it is the same in both
\* directions, and the 16-bit signed subtraction does not overflow:
\* d(500, 200) = 300, d(500, 500) = 0, d(500, 900) = 400, d(10, 100) = 90.
WeightDistanceIsAbsoluteDifference ==
    last.op = "weight_distance" =>
        /\ last.a >= last.b => last.result = last.a - last.b
        /\ last.a < last.b => last.result = last.b - last.a
        /\ last.result = weight_distance(last.b, last.a)
        /\ ~last.overflow
        /\ (last.a = 500 /\ last.b = 200) => last.result = 300
        /\ (last.a = 500 /\ last.b = 500) => last.result = 0
        /\ (last.a = 500 /\ last.b = 900) => last.result = 400
        /\ (last.a = 10 /\ last.b = 100) => last.result = 90

\* The distance from the out-of-range weight 10 to 100, as in the test: the
\* first number is the smaller one.
WeightDistanceIsAbsoluteDifferenceWitness ==
    /\ last.op = "weight_distance"
    /\ last.a = 10
    /\ last.b = 100
    /\ last.result = 90

\* ------------------------------------------- typographic family trimming

MaxWords == 2

\* the names of tests::test_trim_styles
TestNames ==
    { <<"A", "t", "m", "a", " ", "L", "i", "g", "h", "t">>,
      <<"e", "r", "a", "s", " ", "b", "o", "l", "d">>,
      <<"f", "o", "o", "t", "l", "i", "g", "h", "t", " ", "m", "t", " ", "l", "i", "g", "h", "t">>,
      <<"t", "i", "m", "e", "s", " ", "n", "e", "w", " ", "r", "o", "m", "a", "n">>,
      <<"n", "o", "t", "o", " ", "s", "a", "n", "s", " ", "m", "o", "n", "o", " ", "c", "o", "n", "d", " ", "s", "e", "m", "b", "d">>,
      <<"n", "o", "t", "o", " ", "s", "e", "r", "i", "f", " ", "S", "E", "M", "C", "O", "N", "D", " ", "s", "e", "m", "b", "d">>,
      <<"c", "r", "i", "m", "s", "o", "n", " ", "t", "e", "x", "t">>,
      <<"f", "o", "o", "t", "l", "i", "g", "h", "t", " ", "l", "i", "g", "h", "t">>,
      <<"N", "o", "t", "o", " ", "S", "a", "n", "s">>,
      <<"N", "o", "t", "o", " ", "S", "a", "n", "s", " ", "L", "i", "g", "h", "t">>,
      <<"N", "o", "t", "o", " ", "S", "a", "n", "s", " ", "S", "e", "m", "i", "c", "o", "n", "d", "e", "n", "s", "e", "d", " ", "H", "e", "a", "v", "y">>,
      <<"F", "a", "m", "i", "l", "x">>,
      <<"F", "o", "n", "t", " ", "U", "l", "t", "r", "a">>,
      <<"F", "o", "n", "t", " ", "U", "l", "t", "r", "a", " ", "B", "o", "l", "d">> }

\* names put together from a family word and up to MaxWords further words,
\* each joined by a separator or by nothing, some with surrounding
\* whitespace and leading dots
NameWords ==
    { <<"U", "l", "t", "r", "a">>,
      <<"B", "o", "l", "d">>,
      <<"x">>,
      <<"S", "e", "m", "i">>,
      <<"c", "o", "n", "d">>,
      <<"D", "e", "m", "i">>,
      <<"M", "o", "n", "o">>,
      <<"t", "h">> }

NameJoints == {<<" ">>, <<"-">>, <<>>}

RECURSIVE ComposedNames(_)
ComposedNames(n) ==
    IF n = 0 THEN {<<"F", "o", "n", "t">>, <<"F", "a", "m", "i", "l", "x">>}
    ELSE LET shorter == ComposedNames(n - 1)
         IN  shorter \cup {s \o j \o w : s \in shorter, j \in NameJoints, w \in NameWords}

FamilyNames ==
    TestNames \cup ComposedNames(MaxWords)
        \cup {<<" ", ".">> \o s \o <<" ">> : s \in ComposedNames(1)}

TypographicFamily ==
    /\ last.op = "new"
    /\ \E name \in FamilyNames :
        last' = [op |-> "typographic_family", family |-> name,
                 result |-> typographic_family(name)]
    /\ UNCHANGED <<families, infos, codepoints, coverage, cov, threads, scratch>>

NextFamilyName == TypographicFamily

SpecFamilyName == Init /\ [][NextFamilyName]_vars

EndsWith(s, w) == Len(w) <= Len(s) /\ SubSeq(s, Len(s) - Len(w) + 1, Len(s)) = w

StartsWith(s, w) == Len(w) <= Len(s) /\ SubSeq(s, 1, Len(w)) = w

EndsInStyleSuffix(s) == \E i \in 1..Len(SUFFIXES) : EndsWith(s, SUFFIXES[i])

\* one or more style suffixes in a row
RECURSIVE IsSuffixRun(_)
IsSuffixRun(s) ==
    /\ s # <<>>
    /\ \E i \in 1..Len(SUFFIXES) :
        /\ StartsWith(s, SUFFIXES[i])
        /\ LET rest == SubSeq(s, Len(SUFFIXES[i]) + 1, Len(s))
           IN  rest = <<>> \/ IsSuffixRun(rest)

\* what one iteration may remove: a separator, then style suffixes, with
\* possibly a modifier (and possibly a separator after it) before them
IsTrimmedChunk(c) ==
    /\ c # <<>>
    /\ c[1] \in {" ", "-", "_"}
    /\ LET rest == Tail(c)
       IN  \/ IsSuffixRun(rest)
           \/ \E i \in 1..Len(MODIFIERS) :
               /\ StartsWith(rest, MODIFIERS[i])
               /\ LET after == SubSeq(rest, Len(MODIFIERS[i]) + 1, Len(rest))
                  IN  \/ IsSuffixRun(after)
                      \/ /\ after # <<>>
                         /\ after[1] \in {" ", "-", "_"}
                         /\ IsSuffixRun(Tail(after))

RECURSIVE IsTrimmedTail(_)
IsTrimmedTail(r) ==
    \/ r = <<>>
    \/ \E k \in 1..Len(r) :
        /\ IsTrimmedChunk(SubSeq(r, k, Len(r)))
        /\ IsTrimmedTail(SubSeq(r, 1, k - 1))

\* the name without surrounding whitespace and leading dots
Bare(name) ==
    LET first == {i \in 1..Len(name) : name[i] # " "}
        last_ == {i \in 1..Len(name) : name[i] # " "}
        inner == IF first = {} THEN <<>>
                 ELSE SubSeq(name, CHOOSE i \in first : \A j \in first : i <= j,
                                   CHOOSE i \in last_ : \A j \in last_ : i >= j)
        undotted == {i \in 1..Len(inner) : inner[i] # "."}
    IN  IF undotted = {} THEN <<>>
        ELSE SubSeq(inner, CHOOSE i \in undotted : \A j \in undotted : i <= j,
                    Len(inner))

TrimsTo(name, result) ==
    last.family = name => last.result = result

\* C22: typographic family trimming returns a name that does not end in a
\* style suffix unchanged (without surrounding whitespace and leading
\* dots), and what it removes from any name is made of pieces that start at
\* a separator and end in style suffixes, a modifier being removed only
\* between that separator and the suffixes stripped after it: "Font Ultra"
\* and "Familx" stay, "Font Ultra Bold" becomes "Font" and
\* "noto sans mono cond sembd" becomes "noto sans mono".
TrimmingKeepsUnsuffixedNames ==
    last.op = "typographic_family" =>
        LET bare == Bare(last.family)
            lower == [i \in 1..Len(bare) |-> lower_char(bare[i])]
            kept == Len(last.result)
        IN  /\ kept <= Len(bare)
            /\ last.result = SubSeq(bare, 1, kept)
            /\ ~EndsInStyleSuffix(lower) => last.result = bare
            /\ IsTrimmedTail(SubSeq(lower, kept + 1, Len(lower)))
            /\ TrimsTo(<<"F", "o", "n", "t", " ", "U", "l", "t", "r", "a">>, <<"F", "o", "n", "t", " ", "U", "l", "t", "r", "a">>)
            /\ TrimsTo(<<"F", "o", "n", "t", " ", "U", "l", "t", "r", "a", " ", "B", "o", "l", "d">>, <<"F", "o", "n", "t">>)
            /\ TrimsTo(<<"F", "a", "m", "i", "l", "x">>, <<"F", "a", "m", "i", "l", "x">>)
            /\ TrimsTo(<<"n", "o", "t", "o", " ", "s", "a", "n", "s", " ", "m", "o", "n", "o", " ", "c", "o", "n", "d", " ", "s", "e", "m", "b", "d">>,
                       <<"n", "o", "t", "o", " ", "s", "a", "n", "s", " ", "m", "o", "n", "o">>)

TrimmingKeepsUnsuffixedNamesWitness ==
    /\ last.op = "typographic_family"
    /\ last.family = <<"F", "o", "n", "t", " ", "U", "l", "t", "r", "a", " ", "B", "o", "l", "d">>
    /\ last.result = <<"F", "o", "n", "t">>

\* ------------------------------------------------ variable axes of from_ttf

\* An axis value is an f32 read from a 16.16 fixed point number; the model
\* counts it in quarters, so 1602 is 400.5.  f32::floor, f32::ceil and
\* f32::round (half away from zero) give whole numbers.
f32_floor(q) == q \div 4

f32_ceil(q) == -((-q) \div 4)

f32_round(q) == IF q >= 0 THEN (2 * q + 4) \div 8 ELSE -((2 * (-q) + 4) \div 8)

\* `as u16` of a float: saturating
as_u16(x) == IF x < 0 THEN 0 ELSE IF x > 65535 THEN 65535 ELSE x

\* FontWeight::from_number
from_number(weight) == IF weight < 100 THEN 100 ELSE IF weight > 900 THEN 900 ELSE weight

\* FontStretch::from_ratio(Ratio::new(value as f64 / 100.0)) of a percentage
\* in quarters: the ratio clamped into 0.5..2.0, in permille, truncated
from_ratio(q) ==
    LET permille == (10 * q) \div 4
    IN  as_u16(IF permille < 500 THEN 500 ELSE IF permille > 2000 THEN 2000 ELSE permille)

wght_field_ceil_min(axis) ==
    Variable(from_number(as_u16(f32_ceil(axis.min_value))),
             from_number(as_u16(f32_ceil(axis.max_value))),
             from_number(as_u16(f32_round(axis.def_value))))

\* the wght axis of from_ttf
wght_field(axis) ==
    Variable(from_number(as_u16(f32_floor(axis.min_value))),
             from_number(as_u16(f32_ceil(axis.max_value))),
             from_number(as_u16(f32_round(axis.def_value))))

\* the wdth axis of from_ttf
wdth_field(axis) ==
    Variable(from_ratio(axis.min_value), from_ratio(axis.max_value),
             from_ratio(axis.def_value))

\* ttf.variation_axes(): the parser hands out every axis with
\* min_value = min(min, def) and max_value = max(max, def), whatever the
\* file holds, so min_value <= def_value <= max_value.
VariationAxes(values) ==
    {[min_value |-> mn, def_value |-> d, max_value |-> mx] :
        mn \in values, d \in values, mx \in values}

ParsedAxes(values) ==
    {a \in VariationAxes(values) :
        a.min_value <= a.def_value /\ a.def_value <= a.max_value}

\* weights -1, 0, 50, 99.5, 100, 399.75, 400, 400.25, 400.5, 650.25, 900,
\* 900.5, 1000
WghtValues ==
    {-4, 0, 200, 398, 400, 1599, 1600, 1601, 1602, 2601, 3600, 3602, 4000}

\* widths 0, 25, 49.75, 50, 62.5, 75.25, 100, 112.5, 200, 200.25, 300 percent
WdthValues == {0, 100, 199, 200, 250, 301, 400, 450, 800, 801, 1200}

FromTtfWght ==
    /\ last.op = "new"
    /\ \E axis \in ParsedAxes(WghtValues) :
        last' = [op |-> "from_ttf", tag |-> "wght", axis |-> axis,
                 field |-> wght_field(axis)]
    /\ UNCHANGED <<families, infos, codepoints, coverage, cov, threads, scratch>>

FromTtfWdth ==
    /\ last.op = "new"
    /\ \E axis \in ParsedAxes(WdthValues) :
        last' = [op |-> "from_ttf", tag |-> "wdth", axis |-> axis,
                 field |-> wdth_field(axis)]
    /\ UNCHANGED <<families, infos, codepoints, coverage, cov, threads, scratch>>

NextIngest == FromTtfWght \/ FromTtfWdth

SpecIngest == Init /\ [][NextIngest]_vars

U32Bits == 4

U32Max == 2 ^ U32Bits - 1

\* a + b on u32: with overflow checks (the default of a debug build) an
\* overflow panics, without them (the default of a release build) it wraps.
add_u32(a, b, overflow_checks) ==
    IF a + b <= U32Max THEN Some(a + b)
    ELSE IF overflow_checks THEN Panic
    ELSE Some((a + b) % (2 ^ U32Bits))

\* the loop of Coverage::from_vec over the sorted, deduplicated codepoints
RECURSIVE from_vec_u32_loop(_, _, _, _)
from_vec_u32_loop(runs, next, cs, overflow_checks) ==
    IF cs = <<>> THEN Some(runs)
    ELSE LET c == Head(cs)
             extend == runs # <<>> /\ c = next
             run == IF extend THEN add_u32(runs[Len(runs)], 1, overflow_checks)
                    ELSE Some(1)
             grown == IF extend THEN [runs EXCEPT ![Len(runs)] = run.val]
                      ELSE runs \o <<c - next, 1>>
             after == add_u32(c, 1, overflow_checks)
         IN  IF ~run.some \/ ~after.some THEN Panic
             ELSE from_vec_u32_loop(grown, after.val, Tail(cs), overflow_checks)

\* Coverage::from_vec on u32
from_vec_u32(cps, overflow_checks) ==
    from_vec_u32_loop(<<>>, 0, dedup(sort(cps)), overflow_checks)

\* Coverage::contains on u32
RECURSIVE contains_u32_loop(_, _, _, _, _)
contains_u32_loop(runs, c, inside, cursor, overflow_checks) ==
    IF runs = <<>> THEN Some(FALSE)
    ELSE LET end == add_u32(cursor, Head(runs), overflow_checks)
         IN  IF ~end.some THEN Panic
             ELSE IF cursor <= c /\ c < end.val THEN Some(inside)
             ELSE contains_u32_loop(Tail(runs), c, ~inside, end.val, overflow_checks)

contains_u32(runs, c, overflow_checks) ==
    contains_u32_loop(runs, c, FALSE, 0, overflow_checks)

\* Coverage::iter on u32, collected
RECURSIVE iter_u32_loop(_, _, _, _)
iter_u32_loop(runs, inside, cursor, overflow_checks) ==
    IF runs = <<>> THEN Some(<<>>)
    ELSE LET end == add_u32(cursor, Head(runs), overflow_checks)
             rest == iter_u32_loop(Tail(runs), ~inside, end.val, overflow_checks)
         IN  IF ~end.some THEN Panic
             ELSE IF ~rest.some THEN Panic
             ELSE Some((IF inside /\ cursor < end.val
                        THEN [i \in 1..(end.val - cursor) |-> cursor + i - 1]
                        ELSE <<>>) \o rest.val)

iter_u32(runs, overflow_checks) == iter_u32_loop(runs, FALSE, 0, overflow_checks)

\* codepoints at both ends of u32
EdgeCodepoints == {0, 1, U32Max - 1, U32Max}

EdgeInputs == UNION { [1..n -> EdgeCodepoints] : n \in 0..MaxLen }

\* the build is either one with overflow checks or one without
InitCoverageU32 ==
    /\ families = NewFamilies
    /\ infos = NewInfos
    /\ last \in {[op |-> "new", overflow_checks |-> b] : b \in BOOLEAN}
    /\ codepoints \in EdgeInputs
    /\ coverage = None
    /\ cov = NoCoverageOp
    /\ threads = NoCalls
    /\ scratch = NoScratch

\* Coverage::from_vec(codepoints)
FromVecU32 ==
    /\ coverage = None
    /\ coverage' = from_vec_u32(codepoints, last.overflow_checks)
    /\ cov' = [op |-> "from_vec"]
    /\ UNCHANGED <<families, infos, last, codepoints, threads, scratch>>

\* coverage.contains(c)
ContainsU32 ==
    /\ coverage.some
    /\ \E c \in EdgeCodepoints :
        cov' = [op |-> "contains", c |-> c,
                result |-> contains_u32(coverage.val, c, last.overflow_checks)]
    /\ UNCHANGED <<families, infos, last, codepoints, coverage, threads, scratch>>

\* coverage.iter().collect()
IterU32 ==
    /\ coverage.some
    /\ cov' = [op |-> "iter", result |-> iter_u32(coverage.val, last.overflow_checks)]
    /\ UNCHANGED <<families, infos, last, codepoints, coverage, threads, scratch>>

NextCoverageU32 == FromVecU32 \/ ContainsU32 \/ IterU32

SpecCoverageU32 == InitCoverageU32 /\ [][NextCoverageU32]_vars

\* C24: from_vec, contains and iter are total on all of u32: also for
\* inputs holding the largest u32, c + 1 and cursor + run do not overflow,
\* the build completes, and contains answers membership for every c.
CoverageIsTotalOnU32 ==
    /\ "panic" \notin DOMAIN coverage
    /\ cov.op = "contains" =>
        /\ "panic" \notin DOMAIN cov.result
        /\ cov.result.val <=> cov.c \in Range(codepoints)
    /\ cov.op = "iter" =>
        /\ "panic" \notin DOMAIN cov.result
        /\ Range(cov.result.val) = Range(codepoints)

\* ------------------------------------------------------- axis promotion

\* C25: whenever the returned face has a style other than the requested
\* one and distance() nevertheless gives it the style distance 0, the face
\* has a slant axis and its instance parameters realise the requested
\* style: on a Slnt axis the request is Italic or Oblique and the instance
\* slant is strictly negative; on an Ital axis the instance italic flag is
\* true exactly when the requested style is not Normal.
PromotedWinnerRealisesStyle ==
    Selected =>
        LET c == Winner
            style == last.variant.style
        IN  (c.style # style /\ distance(c, last.variant).style = 0) =>
                /\ c.slant_axis.tag \in {"Slnt", "Ital"}
                /\ c.slant_axis.tag = "Slnt" =>
                    /\ style \in {Italic, Oblique}
                    /\ Params.slant.some
                    /\ Params.slant.val < 0
                /\ c.slant_axis.tag = "Ital" =>
                    /\ Params.italic.some
                    /\ Params.italic.val <=> style # Normal

\* An Italic face with an Ital axis was returned for a Normal request,
\* with the italic flag off.
PromotedWinnerRealisesStyleWitness ==
    /\ Selected
    /\ Winner.style = Italic
    /\ Winner.slant_axis = Ital(TRUE)
    /\ last.variant.style = Normal
    /\ distance(Winner, last.variant).style = 0
    /\ Params.italic = Some(FALSE)

====
